---- MODULE Spec2Model ----
(***************************************************************************)
(* Graph client/server (OlegMityaev/client-sever): the wire codec, the     *)
(* graph engine, the server's TCP worker and UDP loop, the UDP client's   *)
(* send-with-acknowledgement call, the TCP client, and a TCP stream read   *)
(* and written in chunks, as state machines.                               *)
(*                                                                         *)
(* Bytes are integers 0..255 and a buffer is a sequence of bytes.  A       *)
(* std::string is the sequence of its UTF-8 bytes.  Offsets are zero-based *)
(* as in the source; buffer[offset + 1] is the byte at that offset.        *)
(* 32-bit fields are decoded with their full value; the inputs the model   *)
(* enumerates keep the top byte of a 32-bit field below 128.               *)
(***************************************************************************)
EXTENDS Integers, Sequences, FiniteSets, Bags, TLC

\* ------------------------------------------------------------------------
\* Bounds of the model
\* ------------------------------------------------------------------------
\* number of user commands the UDP client issues in one run
MaxRequests == 2
\* number of datagrams the network may duplicate in one run
MaxDup == 1
\* number of foreign datagrams injected into the client's socket in one run
MaxInject == 1
\* number of UDP source addresses and of TCP connections of the server run
NumPeers == 2

\* the number of requests the TCP client issues
MaxTcpRequests == 4
\* the number of messages on a stream
MaxFrames == 2
\* the largest number of bytes one send or recv call moves, apart from a
\* call that moves all there is
MaxChunk == 3
\* the number of requests of the session in which the request counter is
\* followed around its 16 bits
MaxIds == 65537

\* ------------------------------------------------------------------------
\* Program constants
\* ------------------------------------------------------------------------
kHeaderSize == 12
kMaxPayloadSize == 1048576
kAckRetries == 3
kMinVertices == 6
kMinEdges == 6
kInfinity == 1073741823

\* enum class Command
CmdHelp == 1
CmdUploadGraph == 2
CmdPathQuery == 3
CmdPathResult == 4
CmdError == 5
CmdAck == 6
CmdExit == 7

\* enum class Status
StOk == 0
StInvalidRequest == 1
StInternalError == 2
StNotReady == 3

\* ------------------------------------------------------------------------
\* String literals of the source, as UTF-8 bytes
\* ------------------------------------------------------------------------
\* src/server.cpp:51 (407 bytes) 
kHelpText ==
  <<208, 154, 208, 190, 208, 188, 208, 176, 208, 189, 208, 180, 209, 139, 58,
    10, 32, 32, 104, 101, 108, 112, 32, 32, 32, 32, 32, 32, 32, 32, 32, 32, 32,
    32, 45, 32, 208, 191, 208, 190, 208, 187, 209, 131, 209, 135, 208, 184, 209,
    130, 209, 140, 32, 209, 129, 208, 191, 208, 184, 209, 129, 208, 190, 208,
    186, 32, 208, 186, 208, 190, 208, 188, 208, 176, 208, 189, 208, 180, 10, 32,
    32, 117, 112, 108, 111, 97, 100, 95, 103, 114, 97, 112, 104, 32, 32, 32, 32,
    45, 32, 208, 183, 208, 176, 208, 179, 209, 128, 209, 131, 208, 183, 208,
    184, 209, 130, 209, 140, 32, 208, 179, 209, 128, 208, 176, 209, 132, 32, 40,
    208, 188, 208, 176, 209, 130, 209, 128, 208, 184, 209, 134, 208, 176, 32,
    208, 184, 208, 189, 209, 134, 208, 184, 208, 180, 208, 181, 208, 189, 209,
    130, 208, 189, 208, 190, 209, 129, 209, 130, 208, 184, 32, 43, 32, 208, 178,
    208, 181, 209, 129, 208, 176, 41, 10, 32, 32, 112, 97, 116, 104, 95, 113,
    117, 101, 114, 121, 32, 32, 32, 32, 32, 32, 45, 32, 208, 189, 208, 176, 208,
    185, 209, 130, 208, 184, 32, 208, 186, 209, 128, 208, 176, 209, 130, 209,
    135, 208, 176, 208, 185, 209, 136, 208, 184, 208, 185, 32, 208, 191, 209,
    131, 209, 130, 209, 140, 32, 208, 188, 208, 181, 208, 182, 208, 180, 209,
    131, 32, 208, 178, 208, 181, 209, 128, 209, 136, 208, 184, 208, 189, 208,
    176, 208, 188, 208, 184, 10, 32, 32, 101, 120, 105, 116, 32, 32, 32, 32, 32,
    32, 32, 32, 32, 32, 32, 32, 45, 32, 208, 183, 208, 176, 208, 178, 208, 181,
    209, 128, 209, 136, 208, 184, 209, 130, 209, 140, 32, 209, 129, 208, 190,
    208, 181, 208, 180, 208, 184, 208, 189, 208, 181, 208, 189, 208, 184, 208,
    181, 32, 208, 186, 208, 187, 208, 184, 208, 181, 208, 189, 209, 130, 208,
    176, 10, 208, 157, 209, 131, 208, 188, 208, 181, 209, 128, 208, 176, 209,
    134, 208, 184, 209, 143, 32, 208, 178, 208, 181, 209, 128, 209, 136, 208,
    184, 208, 189, 32, 208, 189, 208, 176, 209, 135, 208, 184, 208, 189, 208,
    176, 208, 181, 209, 130, 209, 129, 209, 143, 32, 209, 129, 32, 48, 46, 10>>

\* src/server.cpp:238; src/server.cpp:450 (39 bytes) 
kMsgGraphAccepted ==
  <<208, 147, 209, 128, 208, 176, 209, 132, 32, 208, 191, 209, 128, 208, 184,
    208, 189, 209, 143, 209, 130, 32, 209, 129, 208, 181, 209, 128, 208, 178,
    208, 181, 209, 128, 208, 190, 208, 188, 46>>

\* src/server.cpp:245; src/server.cpp:457 (54 bytes) 
kMsgBadPathQuery ==
  <<208, 157, 208, 181, 208, 186, 208, 190, 209, 128, 209, 128, 208, 181, 208,
    186, 209, 130, 208, 189, 208, 176, 209, 143, 32, 209, 129, 209, 130, 209,
    128, 209, 131, 208, 186, 209, 130, 209, 131, 209, 128, 208, 176, 32, 80, 97,
    116, 104, 81, 117, 101, 114, 121, 46>>

\* src/server.cpp:249 (68 bytes) 
kMsgNoGraphTcp ==
  <<208, 147, 209, 128, 208, 176, 209, 132, 32, 208, 189, 208, 181, 32, 208,
    183, 208, 176, 208, 179, 209, 128, 209, 131, 208, 182, 208, 181, 208, 189,
    46, 32, 208, 152, 209, 129, 208, 191, 208, 190, 208, 187, 209, 140, 208,
    183, 209, 131, 208, 185, 209, 130, 208, 181, 32, 117, 112, 108, 111, 97,
    100, 95, 103, 114, 97, 112, 104, 46>>

\* src/server.cpp:461 (66 bytes) 
kMsgNoGraphUdp ==
  <<208, 147, 209, 128, 208, 176, 209, 132, 32, 208, 189, 208, 181, 32, 208,
    183, 208, 176, 208, 179, 209, 128, 209, 131, 208, 182, 208, 181, 208, 189,
    46, 32, 208, 152, 209, 129, 208, 191, 208, 190, 208, 187, 209, 140, 208,
    183, 209, 131, 208, 185, 209, 130, 208, 181, 32, 108, 111, 97, 100, 95, 103,
    114, 97, 112, 104, 46>>

\* src/server.cpp:261; src/server.cpp:473 (22 bytes) 
kMsgGoodbye ==
  <<208, 148, 208, 190, 32, 209, 129, 208, 178, 208, 184, 208, 180, 208, 176,
    208, 189, 208, 184, 209, 143, 46>>

\* src/server.cpp:268; src/server.cpp:481; src/client.cpp:647; src/client.cpp:796 (38 bytes) 
kMsgUnknownCommand ==
  <<208, 157, 208, 181, 208, 184, 208, 183, 208, 178, 208, 181, 209, 129, 209,
    130, 208, 189, 208, 176, 209, 143, 32, 208, 186, 208, 190, 208, 188, 208,
    176, 208, 189, 208, 180, 208, 176, 46>>

\* src/server.cpp:111 (27 bytes) 
kMsgPathNotFoundDefault ==
  <<208, 159, 209, 131, 209, 130, 209, 140, 32, 208, 189, 208, 181, 32, 208,
    189, 208, 176, 208, 185, 208, 180, 208, 181, 208, 189, 46>>

\* src/graph.cpp:32 (127 bytes) 
kMsgRowCount ==
  <<208, 154, 208, 190, 208, 187, 208, 184, 209, 135, 208, 181, 209, 129, 209,
    130, 208, 178, 208, 190, 32, 209, 129, 209, 130, 209, 128, 208, 190, 208,
    186, 32, 208, 188, 208, 176, 209, 130, 209, 128, 208, 184, 209, 134, 209,
    139, 32, 208, 184, 208, 189, 209, 134, 208, 184, 208, 180, 208, 181, 208,
    189, 209, 130, 208, 189, 208, 190, 209, 129, 209, 130, 208, 184, 32, 208,
    189, 208, 181, 32, 209, 129, 208, 190, 208, 178, 208, 191, 208, 176, 208,
    180, 208, 176, 208, 181, 209, 130, 32, 209, 129, 32, 209, 135, 208, 184,
    209, 129, 208, 187, 208, 190, 208, 188, 32, 208, 178, 208, 181, 209, 128,
    209, 136, 208, 184, 208, 189, 46>>

\* src/graph.cpp:37 (131 bytes) 
kMsgColCount ==
  <<208, 154, 208, 190, 208, 187, 208, 184, 209, 135, 208, 181, 209, 129, 209,
    130, 208, 178, 208, 190, 32, 209, 129, 209, 130, 208, 190, 208, 187, 208,
    177, 209, 134, 208, 190, 208, 178, 32, 208, 188, 208, 176, 209, 130, 209,
    128, 208, 184, 209, 134, 209, 139, 32, 208, 184, 208, 189, 209, 134, 208,
    184, 208, 180, 208, 181, 208, 189, 209, 130, 208, 189, 208, 190, 209, 129,
    209, 130, 208, 184, 32, 208, 189, 208, 181, 32, 209, 129, 208, 190, 208,
    178, 208, 191, 208, 176, 208, 180, 208, 176, 208, 181, 209, 130, 32, 209,
    129, 32, 209, 135, 208, 184, 209, 129, 208, 187, 208, 190, 208, 188, 32,
    209, 128, 209, 145, 208, 177, 208, 181, 209, 128, 46>>

\* src/graph.cpp:46 (98 bytes) 
kMsgNotBinary ==
  <<208, 156, 208, 176, 209, 130, 209, 128, 208, 184, 209, 134, 208, 176, 32,
    208, 184, 208, 189, 209, 134, 208, 184, 208, 180, 208, 181, 208, 189, 209,
    130, 208, 189, 208, 190, 209, 129, 209, 130, 208, 184, 32, 208, 180, 208,
    190, 208, 187, 208, 182, 208, 189, 208, 176, 32, 209, 129, 208, 190, 208,
    180, 208, 181, 209, 128, 208, 182, 208, 176, 209, 130, 209, 140, 32, 209,
    130, 208, 190, 208, 187, 209, 140, 208, 186, 208, 190, 32, 48, 32, 208, 184,
    208, 187, 208, 184, 32, 49, 46>>

\* src/graph.cpp:54 (107 bytes) 
kMsgEdgeNoVertex ==
  <<208, 154, 208, 176, 208, 182, 208, 180, 208, 190, 208, 181, 32, 209, 128,
    208, 181, 208, 177, 209, 128, 208, 190, 32, 208, 180, 208, 190, 208, 187,
    208, 182, 208, 189, 208, 190, 32, 208, 177, 209, 139, 209, 130, 209, 140,
    32, 208, 184, 208, 189, 209, 134, 208, 184, 208, 180, 208, 181, 208, 189,
    209, 130, 208, 189, 208, 190, 32, 209, 133, 208, 190, 209, 130, 209, 143,
    32, 208, 177, 209, 139, 32, 208, 190, 208, 180, 208, 189, 208, 190, 208,
    185, 32, 208, 178, 208, 181, 209, 128, 209, 136, 208, 184, 208, 189, 208,
    181, 46>>

\* src/graph.cpp:58 (79 bytes) 
kMsgEdgeTooMany ==
  <<208, 160, 208, 181, 208, 177, 209, 128, 208, 190, 32, 208, 189, 208, 181,
    32, 208, 188, 208, 190, 208, 182, 208, 181, 209, 130, 32, 209, 129, 208,
    190, 208, 181, 208, 180, 208, 184, 208, 189, 209, 143, 209, 130, 209, 140,
    32, 208, 177, 208, 190, 208, 187, 208, 181, 208, 181, 32, 208, 180, 208,
    178, 209, 131, 209, 133, 32, 208, 178, 208, 181, 209, 128, 209, 136, 208,
    184, 208, 189, 46>>

\* src/graph.cpp:83 (86 bytes) 
kMsgColumnEmpty ==
  <<208, 157, 208, 176, 208, 185, 208, 180, 208, 181, 208, 189, 32, 209, 129,
    209, 130, 208, 190, 208, 187, 208, 177, 208, 181, 209, 134, 32, 208, 188,
    208, 176, 209, 130, 209, 128, 208, 184, 209, 134, 209, 139, 32, 208, 177,
    208, 181, 208, 183, 32, 208, 184, 208, 189, 209, 134, 208, 184, 208, 180,
    208, 181, 208, 189, 209, 130, 208, 189, 209, 139, 209, 133, 32, 208, 178,
    208, 181, 209, 128, 209, 136, 208, 184, 208, 189, 46>>

\* src/graph.cpp:88 (63 bytes) 
kMsgColumnTooMany ==
  <<208, 160, 208, 181, 208, 177, 209, 128, 208, 190, 32, 209, 129, 208, 190,
    208, 181, 208, 180, 208, 184, 208, 189, 209, 143, 208, 181, 209, 130, 32,
    208, 177, 208, 190, 208, 187, 208, 181, 208, 181, 32, 208, 180, 208, 178,
    209, 131, 209, 133, 32, 208, 178, 208, 181, 209, 128, 209, 136, 208, 184,
    208, 189, 46>>

\* src/graph.cpp:95 (75 bytes) 
kMsgWeightRange ==
  <<208, 146, 208, 181, 209, 129, 32, 209, 128, 208, 181, 208, 177, 209, 128,
    208, 176, 32, 208, 191, 209, 128, 208, 181, 208, 178, 209, 139, 209, 136,
    208, 176, 208, 181, 209, 130, 32, 208, 180, 208, 190, 208, 191, 209, 131,
    209, 129, 209, 130, 208, 184, 208, 188, 209, 139, 208, 185, 32, 208, 180,
    208, 184, 208, 176, 208, 191, 208, 176, 208, 183, 208, 190, 208, 189, 46>>

\* src/graph.cpp:119; src/client.cpp:218 (72 bytes) 
kMsgMinVertices ==
  <<208, 147, 209, 128, 208, 176, 209, 132, 32, 208, 180, 208, 190, 208, 187,
    208, 182, 208, 181, 208, 189, 32, 209, 129, 208, 190, 208, 180, 208, 181,
    209, 128, 208, 182, 208, 176, 209, 130, 209, 140, 32, 208, 189, 208, 181,
    32, 208, 188, 208, 181, 208, 189, 208, 181, 208, 181, 32, 54, 32, 208, 178,
    208, 181, 209, 128, 209, 136, 208, 184, 208, 189, 46>>

\* src/graph.cpp:123; src/client.cpp:226 (70 bytes) 
kMsgMinEdges ==
  <<208, 147, 209, 128, 208, 176, 209, 132, 32, 208, 180, 208, 190, 208, 187,
    208, 182, 208, 181, 208, 189, 32, 209, 129, 208, 190, 208, 180, 208, 181,
    209, 128, 208, 182, 208, 176, 209, 130, 209, 140, 32, 208, 189, 208, 181,
    32, 208, 188, 208, 181, 208, 189, 208, 181, 208, 181, 32, 54, 32, 209, 128,
    209, 145, 208, 177, 208, 181, 209, 128, 46>>

\* src/graph.cpp:127 (86 bytes) 
kMsgWeightCount ==
  <<208, 154, 208, 190, 208, 187, 208, 184, 209, 135, 208, 181, 209, 129, 209,
    130, 208, 178, 208, 190, 32, 208, 178, 208, 181, 209, 129, 208, 190, 208,
    178, 32, 208, 180, 208, 190, 208, 187, 208, 182, 208, 189, 208, 190, 32,
    209, 128, 208, 176, 208, 178, 208, 189, 209, 143, 209, 130, 209, 140, 209,
    129, 209, 143, 32, 209, 135, 208, 184, 209, 129, 208, 187, 209, 131, 32,
    209, 128, 209, 145, 208, 177, 208, 181, 209, 128, 46>>

\* src/graph.cpp:132 (44 bytes) 
kMsgWeightTooBig ==
  <<208, 146, 208, 181, 209, 129, 32, 209, 128, 208, 181, 208, 177, 209, 128,
    208, 176, 32, 209, 129, 208, 187, 208, 184, 209, 136, 208, 186, 208, 190,
    208, 188, 32, 208, 178, 208, 181, 208, 187, 208, 184, 208, 186, 46>>

\* src/graph.cpp:154; src/benchmark.cpp:63 (45 bytes) 
kMsgGraphUninit ==
  <<208, 147, 209, 128, 208, 176, 209, 132, 32, 208, 189, 208, 181, 32, 208,
    184, 208, 189, 208, 184, 209, 134, 208, 184, 208, 176, 208, 187, 208, 184,
    208, 183, 208, 184, 209, 128, 208, 190, 208, 178, 208, 176, 208, 189, 46>>

\* src/graph.cpp:158; src/benchmark.cpp:67 (61 bytes) 
kMsgVertexRange ==
  <<208, 146, 208, 181, 209, 128, 209, 136, 208, 184, 208, 189, 209, 139, 32,
    208, 178, 209, 139, 209, 133, 208, 190, 208, 180, 209, 143, 209, 130, 32,
    208, 183, 208, 176, 32, 208, 179, 209, 128, 208, 176, 208, 189, 208, 184,
    209, 134, 209, 139, 32, 208, 179, 209, 128, 208, 176, 209, 132, 208, 176, 46>>

\* src/graph.cpp:214; src/benchmark.cpp:114 (57 bytes) 
kMsgNoPath ==
  <<208, 159, 209, 131, 209, 130, 209, 140, 32, 208, 188, 208, 181, 208, 182,
    208, 180, 209, 131, 32, 208, 178, 208, 181, 209, 128, 209, 136, 208, 184,
    208, 189, 208, 176, 208, 188, 208, 184, 32, 208, 189, 208, 181, 32, 208,
    189, 208, 176, 208, 185, 208, 180, 208, 181, 208, 189, 46>>

\* src/graph.cpp:228; src/benchmark.cpp:128 (54 bytes) 
kMsgPathRebuild ==
  <<208, 157, 208, 181, 32, 209, 131, 208, 180, 208, 176, 208, 187, 208, 190,
    209, 129, 209, 140, 32, 208, 178, 208, 190, 209, 129, 209, 129, 209, 130,
    208, 176, 208, 189, 208, 190, 208, 178, 208, 184, 209, 130, 209, 140, 32,
    208, 191, 209, 131, 209, 130, 209, 140, 46>>

\* src/protocol.cpp:135 (38 bytes) 
kMsgHeaderDamaged ==
  <<208, 151, 208, 176, 208, 179, 208, 190, 208, 187, 208, 190, 208, 178, 208,
    190, 208, 186, 32, 208, 191, 208, 190, 208, 178, 209, 128, 208, 181, 208,
    182, 208, 180, 208, 181, 208, 189, 46>>

\* src/protocol.cpp:140 (90 bytes) 
kMsgBitsSize ==
  <<208, 157, 208, 181, 208, 178, 208, 181, 209, 128, 208, 189, 209, 139, 208,
    185, 32, 209, 128, 208, 176, 208, 183, 208, 188, 208, 181, 209, 128, 32,
    208, 177, 208, 187, 208, 190, 208, 186, 208, 176, 32, 208, 177, 208, 184,
    209, 130, 32, 208, 188, 208, 176, 209, 130, 209, 128, 208, 184, 209, 134,
    209, 139, 32, 208, 184, 208, 189, 209, 134, 208, 184, 208, 180, 208, 181,
    208, 189, 209, 130, 208, 189, 208, 190, 209, 129, 209, 130, 208, 184, 46>>

\* src/protocol.cpp:147 (43 bytes) 
kMsgNoWeights ==
  <<208, 158, 209, 130, 209, 129, 209, 131, 209, 130, 209, 129, 209, 130, 208,
    178, 209, 131, 208, 181, 209, 130, 32, 208, 177, 208, 187, 208, 190, 208,
    186, 32, 208, 178, 208, 181, 209, 129, 208, 190, 208, 178, 46>>

\* src/protocol.cpp:152 (93 bytes) 
kMsgWeightEdgeMismatch ==
  <<208, 154, 208, 190, 208, 187, 208, 184, 209, 135, 208, 181, 209, 129, 209,
    130, 208, 178, 208, 190, 32, 208, 178, 208, 181, 209, 129, 208, 190, 208,
    178, 32, 208, 189, 208, 181, 32, 209, 129, 208, 190, 208, 178, 208, 191,
    208, 176, 208, 180, 208, 176, 208, 181, 209, 130, 32, 209, 129, 32, 208,
    186, 208, 190, 208, 187, 208, 184, 209, 135, 208, 181, 209, 129, 209, 130,
    208, 178, 208, 190, 208, 188, 32, 209, 128, 209, 145, 208, 177, 208, 181,
    209, 128, 46>>

\* src/protocol.cpp:157 (69 bytes) 
kMsgWeightsShort ==
  <<208, 157, 208, 181, 208, 180, 208, 190, 209, 129, 209, 130, 208, 176, 209,
    130, 208, 190, 209, 135, 208, 189, 208, 190, 32, 208, 180, 208, 176, 208,
    189, 208, 189, 209, 139, 209, 133, 32, 208, 180, 208, 187, 209, 143, 32,
    209, 129, 208, 191, 208, 184, 209, 129, 208, 186, 208, 176, 32, 208, 178,
    208, 181, 209, 129, 208, 190, 208, 178, 46>>

\* src/protocol.cpp:166 (46 bytes) 
kMsgWeightRead ==
  <<208, 158, 209, 136, 208, 184, 208, 177, 208, 186, 208, 176, 32, 209, 135,
    209, 130, 208, 181, 208, 189, 208, 184, 209, 143, 32, 208, 178, 208, 181,
    209, 129, 208, 176, 32, 209, 128, 208, 181, 208, 177, 209, 128, 208, 176, 46>>

\* src/protocol.cpp:173 (96 bytes) 
kMsgTrailing ==
  <<208, 158, 209, 129, 209, 130, 208, 176, 208, 187, 208, 184, 209, 129, 209,
    140, 32, 208, 189, 208, 181, 208, 190, 208, 177, 209, 128, 208, 176, 208,
    177, 208, 190, 209, 130, 208, 176, 208, 189, 208, 189, 209, 139, 208, 181,
    32, 208, 180, 208, 176, 208, 189, 208, 189, 209, 139, 208, 181, 32, 208,
    178, 32, 208, 191, 208, 190, 208, 187, 208, 181, 208, 183, 208, 189, 208,
    190, 208, 185, 32, 208, 189, 208, 176, 208, 179, 209, 128, 209, 131, 208,
    183, 208, 186, 208, 181, 46>>

\* src/protocol.cpp:305 (28 bytes) 
kMsgEmptyMatrix ==
  <<208, 159, 209, 131, 209, 129, 209, 130, 208, 176, 209, 143, 32, 208, 188,
    208, 176, 209, 130, 209, 128, 208, 184, 209, 134, 208, 176, 46>>

\* src/protocol.cpp:311 (91 bytes) 
kMsgBitsMismatch ==
  <<208, 157, 208, 181, 209, 129, 208, 190, 208, 190, 209, 130, 208, 178, 208,
    181, 209, 130, 209, 129, 209, 130, 208, 178, 208, 184, 208, 181, 32, 209,
    128, 208, 176, 208, 183, 208, 188, 208, 181, 209, 128, 208, 176, 32, 208,
    177, 208, 184, 209, 130, 208, 190, 208, 178, 208, 190, 208, 179, 208, 190,
    32, 208, 188, 208, 176, 209, 129, 209, 129, 208, 184, 208, 178, 208, 176,
    32, 208, 188, 208, 176, 209, 130, 209, 128, 208, 184, 209, 134, 208, 181, 46>>

\* ------------------------------------------------------------------------
\* Wire codec (protocol.cpp)
\* ------------------------------------------------------------------------
\* appendBytes<uint8_t>: the value cast to one byte
appendU8(value) == <<value % 256>>

\* appendBytes<uint16_t> without htons on a little-endian host
appendU16HostOrder(value) ==
  LET v == value % 65536 IN <<v % 256, v \div 256>>

\* appendBytes<uint16_t>: static_cast<uint16_t>, then network byte order
appendU16(value) ==
  LET v == value % 65536 IN <<v \div 256, v % 256>>

\* appendBytes<uint32_t>: network byte order
appendU32(value) ==
  <<(value \div 16777216) % 256, (value \div 65536) % 256,
    (value \div 256) % 256, value % 256>>

\* readBytes<uint8_t>: bounds check, value, advanced offset
readU8(buffer, offset) ==
  IF offset + 1 > Len(buffer)
  THEN [ok |-> FALSE, value |-> 0, offset |-> offset]
  ELSE [ok |-> TRUE, value |-> buffer[offset + 1], offset |-> offset + 1]

\* readBytes<uint16_t> without the conversion from network byte order, on a
\* little-endian host
readU16HostOrder(buffer, offset) ==
  IF offset + 2 > Len(buffer)
  THEN [ok |-> FALSE, value |-> 0, offset |-> offset]
  ELSE [ok |-> TRUE,
        value |-> buffer[offset + 2] * 256 + buffer[offset + 1],
        offset |-> offset + 2]

\* readBytes<uint16_t>
readU16(buffer, offset) ==
  IF offset + 2 > Len(buffer)
  THEN [ok |-> FALSE, value |-> 0, offset |-> offset]
  ELSE [ok |-> TRUE,
        value |-> buffer[offset + 1] * 256 + buffer[offset + 2],
        offset |-> offset + 2]

\* readBytes<uint32_t>
readU32(buffer, offset) ==
  IF offset + 4 > Len(buffer)
  THEN [ok |-> FALSE, value |-> 0, offset |-> offset]
  ELSE [ok |-> TRUE,
        value |-> buffer[offset + 1] * 16777216 + buffer[offset + 2] * 65536
                  + buffer[offset + 3] * 256 + buffer[offset + 4],
        offset |-> offset + 4]

\* the bytes of buffer at offsets first .. first + count - 1
Slice(buffer, first, count) ==
  [i \in 1..count |-> buffer[first + i]]

\* struct MessageHeader, before any field is assigned
NoHeader ==
  [command |-> 0, status |-> 0, requestId |-> 0, payloadSize |-> 0,
   reserved |-> 0]

serializeHeader(header) ==
  appendU8(header.command) \o appendU8(header.status)
    \o appendU16(header.requestId) \o appendU32(header.payloadSize)
    \o appendU32(header.reserved)

\* a test that turns down a payloadSize equal to the ceiling as well
payloadSizeAllowedBelow(size) == size < kMaxPayloadSize

\* the test deserializeHeader applies to the decoded payloadSize
payloadSizeAllowed(size) == size <= kMaxPayloadSize

deserializeHeader(buffer) ==
  IF Len(buffer) # kHeaderSize
  THEN [ok |-> FALSE, header |-> NoHeader]
  ELSE
    LET c == readU8(buffer, 0)
        s == readU8(buffer, c.offset)
        r == readU16(buffer, s.offset)
        p == readU32(buffer, r.offset)
        z == readU32(buffer, p.offset)
        h == [command |-> c.value, status |-> s.value,
              requestId |-> r.value, payloadSize |-> p.value,
              reserved |-> z.value]
    IN IF ~(c.ok /\ s.ok /\ r.ok /\ p.ok /\ z.ok)
       THEN [ok |-> FALSE, header |-> NoHeader]
       ELSE IF ~payloadSizeAllowed(h.payloadSize)
            THEN [ok |-> FALSE, header |-> h]
            ELSE [ok |-> TRUE, header |-> h]

\* the weights of an UploadGraph payload, four bytes each
RECURSIVE appendWeights(_)
appendWeights(weights) ==
  IF weights = <<>> THEN <<>>
  ELSE appendU32(Head(weights)) \o appendWeights(Tail(weights))

serializeUploadGraph(payload) ==
  appendU16(payload.vertexCount) \o appendU16(payload.edgeCount)
    \o appendU32(Len(payload.incidenceBits)) \o payload.incidenceBits
    \o appendU32(Len(payload.weights)) \o appendWeights(payload.weights)

NoUploadGraph ==
  [vertexCount |-> 0, edgeCount |-> 0, incidenceBits |-> <<>>,
   weights |-> <<>>]

\* the loop of deserializeUploadGraph that reads weightCount weights
RECURSIVE readWeights(_, _, _, _)
readWeights(buffer, offset, remaining, acc) ==
  IF remaining = 0 THEN [ok |-> TRUE, value |-> acc, offset |-> offset]
  ELSE LET w == readU32(buffer, offset)
       IN IF ~w.ok THEN [ok |-> FALSE, value |-> acc, offset |-> offset]
          ELSE readWeights(buffer, w.offset, remaining - 1,
                           Append(acc, w.value))

deserializeUploadGraph(buffer) ==
  LET vc == readU16(buffer, 0)
      ec == readU16(buffer, vc.offset)
      bs == readU32(buffer, ec.offset)
  IN
  IF ~(vc.ok /\ ec.ok /\ bs.ok)
  THEN [ok |-> FALSE, payload |-> NoUploadGraph, error |-> kMsgHeaderDamaged]
  ELSE IF bs.offset + bs.value > Len(buffer)
  THEN [ok |-> FALSE, payload |-> NoUploadGraph, error |-> kMsgBitsSize]
  ELSE
    LET bits == Slice(buffer, bs.offset, bs.value)
        wc == readU32(buffer, bs.offset + bs.value)
    IN
    IF ~wc.ok
    THEN [ok |-> FALSE, payload |-> NoUploadGraph, error |-> kMsgNoWeights]
    ELSE IF wc.value # ec.value
    THEN [ok |-> FALSE, payload |-> NoUploadGraph,
          error |-> kMsgWeightEdgeMismatch]
    ELSE IF wc.offset + wc.value * 4 > Len(buffer)
    THEN [ok |-> FALSE, payload |-> NoUploadGraph,
          error |-> kMsgWeightsShort]
    ELSE
      LET ws == readWeights(buffer, wc.offset, wc.value, <<>>)
      IN
      IF ~ws.ok
      THEN [ok |-> FALSE, payload |-> NoUploadGraph,
            error |-> kMsgWeightRead]
      ELSE IF ws.offset # Len(buffer)
      THEN [ok |-> FALSE, payload |-> NoUploadGraph, error |-> kMsgTrailing]
      ELSE [ok |-> TRUE,
            payload |-> [vertexCount |-> vc.value, edgeCount |-> ec.value,
                         incidenceBits |-> bits, weights |-> ws.value],
            error |-> <<>>]

serializePathQuery(payload) ==
  appendU16(payload.source) \o appendU16(payload.target)

deserializePathQuery(buffer) ==
  IF Len(buffer) # 4
  THEN [ok |-> FALSE, payload |-> [source |-> 0, target |-> 0]]
  ELSE LET s == readU16(buffer, 0)
           t == readU16(buffer, s.offset)
       IN [ok |-> s.ok /\ t.ok,
           payload |-> [source |-> s.value, target |-> t.value]]

\* the vertices of a PathResult payload, two bytes each
RECURSIVE appendPath(_)
appendPath(path) ==
  IF path = <<>> THEN <<>>
  ELSE appendU16(Head(path)) \o appendPath(Tail(path))

serializePathResult(payload) ==
  appendU32(payload.distance) \o appendU16(Len(payload.path))
    \o appendPath(payload.path)

\* the loop of deserializePathResult that reads pathSize vertices
RECURSIVE readPath(_, _, _, _)
readPath(buffer, offset, remaining, acc) ==
  IF remaining = 0 THEN [ok |-> TRUE, value |-> acc, offset |-> offset]
  ELSE LET v == readU16(buffer, offset)
       IN IF ~v.ok THEN [ok |-> FALSE, value |-> acc, offset |-> offset]
          ELSE readPath(buffer, v.offset, remaining - 1, Append(acc, v.value))

deserializePathResult(buffer) ==
  LET d == readU32(buffer, 0)
      n == readU16(buffer, d.offset)
  IN
  IF ~(d.ok /\ n.ok)
  THEN [ok |-> FALSE, payload |-> [distance |-> 0, path |-> <<>>]]
  ELSE IF n.offset + n.value * 2 # Len(buffer)
  THEN [ok |-> FALSE, payload |-> [distance |-> d.value, path |-> <<>>]]
  ELSE LET p == readPath(buffer, n.offset, n.value, <<>>)
       IN [ok |-> p.ok,
           payload |-> [distance |-> d.value, path |-> p.value]]

serializeString(text) == appendU16(Len(text)) \o text

\* deserializeString if it took the text from the front of the buffer and
\* left the bytes after it alone
deserializeStringPrefix(buffer) ==
  LET n == readU16(buffer, 0)
  IN IF ~n.ok THEN [ok |-> FALSE, text |-> <<>>]
     ELSE IF n.offset + n.value > Len(buffer)
          THEN [ok |-> FALSE, text |-> <<>>]
          ELSE [ok |-> TRUE, text |-> Slice(buffer, n.offset, n.value)]

deserializeString(buffer) ==
  LET n == readU16(buffer, 0)
  IN IF ~n.ok THEN [ok |-> FALSE, text |-> <<>>]
     ELSE IF n.offset + n.value # Len(buffer)
          THEN [ok |-> FALSE, text |-> <<>>]
          ELSE [ok |-> TRUE, text |-> Slice(buffer, n.offset, n.value)]

\* 2^k for a bit position 0..7
Pow2(k) == CASE k = 0 -> 1 [] k = 1 -> 2 [] k = 2 -> 4 [] k = 3 -> 8
             [] k = 4 -> 16 [] k = 5 -> 32 [] k = 6 -> 64 [] k = 7 -> 128

\* the byte written at byteIndex if a cell were stored from the most
\* significant bit down (0x80u >> bitPos)
packedByteMsbFirst(matrix, edgeCount, totalBits, byteIndex) ==
  LET bitSet(bitPos) ==
        LET bitIndex == byteIndex * 8 + bitPos
        IN bitIndex < totalBits
           /\ matrix[(bitIndex \div edgeCount) + 1][(bitIndex % edgeCount) + 1]
              # 0
      RECURSIVE orBits(_)
      orBits(bitPos) ==
        IF bitPos = 8 THEN 0
        ELSE (IF bitSet(bitPos) THEN Pow2(7 - bitPos) ELSE 0)
             + orBits(bitPos + 1)
  IN orBits(0)

\* the byte written at byteIndex: the OR of 1u << bitPos over the non-zero
\* cells whose bit index falls into that byte
packedByte(matrix, edgeCount, totalBits, byteIndex) ==
  LET bitSet(bitPos) ==
        LET bitIndex == byteIndex * 8 + bitPos
        IN bitIndex < totalBits
           /\ matrix[(bitIndex \div edgeCount) + 1][(bitIndex % edgeCount) + 1]
              # 0
      RECURSIVE orBits(_)
      orBits(bitPos) ==
        IF bitPos = 8 THEN 0
        ELSE (IF bitSet(bitPos) THEN Pow2(bitPos) ELSE 0) + orBits(bitPos + 1)
  IN orBits(0)

packIncidenceMatrix(matrix) ==
  IF matrix = <<>> \/ matrix[1] = <<>> THEN <<>>
  ELSE LET vertexCount == Len(matrix) % 65536
           edgeCount == Len(matrix[1]) % 65536
           totalBits == vertexCount * edgeCount
       IN [b \in 1..((totalBits + 7) \div 8) |->
             packedByte(matrix, edgeCount, totalBits, b - 1)]

\* unpackIncidenceMatrix if it only asked for enough bytes
unpackIncidenceMatrixAtLeast(vertexCount, edgeCount, bits) ==
  IF vertexCount = 0 \/ edgeCount = 0
  THEN [ok |-> FALSE, matrix |-> <<>>, error |-> kMsgEmptyMatrix]
  ELSE
    LET totalBits == vertexCount * edgeCount
        expectedBytes == (totalBits + 7) \div 8
    IN
    IF Len(bits) < expectedBytes
    THEN [ok |-> FALSE, matrix |-> <<>>, error |-> kMsgBitsMismatch]
    ELSE [ok |-> TRUE,
          matrix |->
            [v \in 1..vertexCount |->
              [e \in 1..edgeCount |->
                LET bitIndex == (v - 1) * edgeCount + (e - 1)
                IN (bits[(bitIndex \div 8) + 1] \div Pow2(bitIndex % 8)) % 2]],
          error |-> <<>>]

unpackIncidenceMatrix(vertexCount, edgeCount, bits) ==
  IF vertexCount = 0 \/ edgeCount = 0
  THEN [ok |-> FALSE, matrix |-> <<>>, error |-> kMsgEmptyMatrix]
  ELSE
    LET totalBits == vertexCount * edgeCount
        expectedBytes == (totalBits + 7) \div 8
    IN
    IF Len(bits) # expectedBytes
    THEN [ok |-> FALSE, matrix |-> <<>>, error |-> kMsgBitsMismatch]
    ELSE [ok |-> TRUE,
          matrix |->
            [v \in 1..vertexCount |->
              [e \in 1..edgeCount |->
                LET bitIndex == (v - 1) * edgeCount + (e - 1)
                IN (bits[(bitIndex \div 8) + 1] \div Pow2(bitIndex % 8)) % 2]],
          error |-> <<>>]

\* ------------------------------------------------------------------------
\* Graph engine (graph.cpp)
\* ------------------------------------------------------------------------
\* struct GraphDefinition, default-constructed
EmptyGraph ==
  [vertexCount |-> 0, edgeCount |-> 0, incidence |-> <<>>, weights |-> <<>>]

\* number of cells equal to 1 in column e (one-based) of the matrix
onesInColumn(graph, e) ==
  Cardinality({v \in 1..graph.vertexCount : graph.incidence[v][e] = 1})

checkIncidenceMatrix(graph) ==
  IF Len(graph.incidence) # graph.vertexCount
  THEN [ok |-> FALSE, message |-> kMsgRowCount]
  ELSE IF \E v \in 1..Len(graph.incidence) :
            Len(graph.incidence[v]) # graph.edgeCount
  THEN [ok |-> FALSE, message |-> kMsgColCount]
  ELSE
    LET notBinary(e) ==
          \E v \in 1..graph.vertexCount : graph.incidence[v][e] \notin {0, 1}
        bad(e) == notBinary(e) \/ onesInColumn(graph, e) = 0
                  \/ onesInColumn(graph, e) > 2
        badColumns == {e \in 1..graph.edgeCount : bad(e)}
    IN
    IF badColumns = {} THEN [ok |-> TRUE, message |-> <<>>]
    ELSE
      \* the first offending column decides the message
      LET e == CHOOSE x \in badColumns : \A y \in badColumns : x <= y
      IN IF notBinary(e) THEN [ok |-> FALSE, message |-> kMsgNotBinary]
         ELSE IF onesInColumn(graph, e) = 0
              THEN [ok |-> FALSE, message |-> kMsgEdgeNoVertex]
              ELSE [ok |-> FALSE, message |-> kMsgEdgeTooMany]

\* validateGraph without any of its checks
validateGraphLax(graph) == [ok |-> TRUE, message |-> <<>>]

validateGraph(graph) ==
  IF graph.vertexCount < kMinVertices
  THEN [ok |-> FALSE, message |-> kMsgMinVertices]
  ELSE IF graph.edgeCount < kMinEdges
  THEN [ok |-> FALSE, message |-> kMsgMinEdges]
  ELSE IF Len(graph.weights) # graph.edgeCount
  THEN [ok |-> FALSE, message |-> kMsgWeightCount]
  ELSE IF \E i \in 1..Len(graph.weights) : graph.weights[i] > kInfinity
  THEN [ok |-> FALSE, message |-> kMsgWeightTooBig]
  ELSE checkIncidenceMatrix(graph)

\* the vertices (zero-based, ascending) incident to edge e (zero-based)
endpointsOf(definition, e) ==
  LET vs == {v \in 0..(definition.vertexCount - 1) :
               definition.incidence[v + 1][e + 1] = 1}
      RECURSIVE ascending(_)
      ascending(s) ==
        IF s = {} THEN <<>>
        ELSE LET m == CHOOSE x \in s : \A y \in s : x <= y
             IN <<m>> \o ascending(s \ {m})
  IN ascending(vs)

\* the loop of collectEdges from edge e on; edges collected so far in acc
RECURSIVE collectEdgesFrom(_, _, _)
collectEdgesFrom(definition, e, acc) ==
  IF e >= definition.edgeCount THEN [edges |-> acc, message |-> <<>>]
  ELSE
    LET endpoints == endpointsOf(definition, e)
        weight == definition.weights[e + 1]
    IN
    IF endpoints = <<>>
    THEN [edges |-> <<>>, message |-> kMsgColumnEmpty]
    ELSE IF Len(endpoints) > 2
    THEN [edges |-> <<>>, message |-> kMsgColumnTooMany]
    ELSE IF weight = kInfinity
    THEN [edges |-> <<>>, message |-> kMsgWeightRange]
    ELSE IF Len(endpoints) = 1
    THEN collectEdgesFrom(definition, e + 1,
           Append(acc, [u |-> endpoints[1], v |-> endpoints[1],
                        weight |-> weight]))
    ELSE collectEdgesFrom(definition, e + 1,
           Append(acc, [u |-> endpoints[1], v |-> endpoints[2],
                        weight |-> weight]))

collectEdges(definition) == collectEdgesFrom(definition, 0, <<>>)

\* static_cast<int16_t> of a 16-bit unsigned value
toInt16(value) == IF value >= 32768 THEN value - 65536 ELSE value

\* static_cast<uint16_t> of a 16-bit signed value
toUint16(value) == IF value < 0 THEN value + 65536 ELSE value

\* the greater of two numbers
greater(a, b) == IF a >= b THEN a ELSE b

\* the inner loop of bellmanFord if an edge were relaxed also when it gives
\* an equal distance
RECURSIVE relaxEdgesOnEqual(_, _, _, _)
relaxEdgesOnEqual(edges, i, source, st) ==
  IF i > Len(edges) THEN st
  ELSE
    LET u == edges[i].u
        v == edges[i].v
        w == edges[i].weight
        s0 == IF st.dist[u + 1] # kInfinity
              THEN [st EXCEPT !.largest = greater(@, st.dist[u + 1] + w)]
              ELSE st
        fwd == st.dist[u + 1] # kInfinity /\ st.dist[u + 1] + w <= st.dist[v + 1]
        s1 == IF fwd
              THEN [s0 EXCEPT !.dist[v + 1] = st.dist[u + 1] + w,
                              !.parent[v + 1] = toInt16(u),
                              !.updated = TRUE]
              ELSE s0
        s2 == IF s1.dist[v + 1] # kInfinity
              THEN [s1 EXCEPT !.largest = greater(@, s1.dist[v + 1] + w)]
              ELSE s1
        bwd == s1.dist[v + 1] # kInfinity
               /\ s1.dist[v + 1] + w <= s1.dist[u + 1]
        s3 == IF bwd
              THEN [s2 EXCEPT !.dist[u + 1] = s1.dist[v + 1] + w,
                              !.parent[u + 1] =
                                 IF u # source THEN toInt16(v) ELSE @,
                              !.updated = TRUE]
              ELSE s2
    IN relaxEdgesOnEqual(edges, i + 1, source, s3)

\* the inner loop of bellmanFord if it added the weight also to the
\* distance of a vertex that has none yet
RECURSIVE relaxEdgesUnreached(_, _, _, _)
relaxEdgesUnreached(edges, i, source, st) ==
  IF i > Len(edges) THEN st
  ELSE
    LET u == edges[i].u
        v == edges[i].v
        w == edges[i].weight
        s0 == [st EXCEPT !.largest = greater(@, st.dist[u + 1] + w)]
        fwd == st.dist[u + 1] + w < st.dist[v + 1]
        s1 == IF fwd
              THEN [s0 EXCEPT !.dist[v + 1] = st.dist[u + 1] + w,
                              !.parent[v + 1] = toInt16(u),
                              !.updated = TRUE]
              ELSE s0
        s2 == [s1 EXCEPT !.largest = greater(@, s1.dist[v + 1] + w)]
        bwd == s1.dist[v + 1] + w < s1.dist[u + 1]
        s3 == IF bwd
              THEN [s2 EXCEPT !.dist[u + 1] = s1.dist[v + 1] + w,
                              !.parent[u + 1] =
                                 IF u # source THEN toInt16(v) ELSE @,
                              !.updated = TRUE]
              ELSE s2
    IN relaxEdgesUnreached(edges, i + 1, source, s3)

\* one pass of the inner loop of bellmanFord: relax edge i (one-based) and
\* the edges after it; st holds dist, parent (indexed by vertex + 1), the
\* updated flag and, in largest, the greatest sum dist + w evaluated so far
RECURSIVE relaxEdges(_, _, _, _)
relaxEdges(edges, i, source, st) ==
  IF i > Len(edges) THEN st
  ELSE
    LET u == edges[i].u
        v == edges[i].v
        w == edges[i].weight
        s0 == IF st.dist[u + 1] # kInfinity
              THEN [st EXCEPT !.largest = greater(@, st.dist[u + 1] + w)]
              ELSE st
        fwd == st.dist[u + 1] # kInfinity /\ st.dist[u + 1] + w < st.dist[v + 1]
        s1 == IF fwd
              THEN [s0 EXCEPT !.dist[v + 1] = st.dist[u + 1] + w,
                              !.parent[v + 1] = toInt16(u),
                              !.updated = TRUE]
              ELSE s0
        s2 == IF s1.dist[v + 1] # kInfinity
              THEN [s1 EXCEPT !.largest = greater(@, s1.dist[v + 1] + w)]
              ELSE s1
        bwd == s1.dist[v + 1] # kInfinity
               /\ s1.dist[v + 1] + w < s1.dist[u + 1]
        s3 == IF bwd
              THEN [s2 EXCEPT !.dist[u + 1] = s1.dist[v + 1] + w,
                              !.parent[u + 1] =
                                 IF u # source THEN toInt16(v) ELSE @,
                              !.updated = TRUE]
              ELSE s2
    IN relaxEdges(edges, i + 1, source, s3)

\* the outer loop of bellmanFord: at most n - 1 passes, stopping after a
\* pass that updated nothing
RECURSIVE relaxPasses(_, _, _, _, _)
relaxPasses(edges, iter, n, source, st) ==
  IF iter >= n - 1 THEN st
  ELSE LET after == relaxEdges(edges, 1, source,
                               [st EXCEPT !.updated = FALSE])
       IN IF ~after.updated THEN after
          ELSE relaxPasses(edges, iter + 1, n, source, after)

\* what a read of parent at an index outside the array yields: the
\* process is stopped by a fault, or the read returns the 16 bits it finds
FaultingRead == [fault |-> TRUE, value |-> 0]
ReturningRead(value) == [fault |-> FALSE, value |-> value]

\* the path reconstruction loop of bellmanFord, from vertex v (int16_t)
\* back along parent; the vertices pushed so far in acc.  A negative v
\* other than -1 indexes parent outside the array, and read is what such a
\* read yields; outside tells whether one happened.  A walk that comes to
\* a vertex it has pushed before goes round for ever in the program; it is
\* cut here and reported with ended = FALSE, as is a walk a fault stops.
RECURSIVE walkParents(_, _, _, _, _, _, _)
walkParents(parent, v, source, n, acc, read, outside) ==
  IF v = -1
  THEN [ended |-> TRUE, faulted |-> FALSE, outside |-> outside, path |-> acc]
  ELSE IF \E k \in 1..Len(acc) : acc[k] = toUint16(v)
  THEN [ended |-> FALSE, faulted |-> FALSE, outside |-> outside,
        path |-> acc]
  ELSE IF v = toInt16(source)
  THEN [ended |-> TRUE, faulted |-> FALSE, outside |-> outside,
        path |-> Append(acc, toUint16(v))]
  ELSE IF v + 1 \in 1..n
  THEN walkParents(parent, parent[v + 1], source, n,
                   Append(acc, toUint16(v)), read, outside)
  ELSE IF read.fault
  THEN [ended |-> FALSE, faulted |-> TRUE, outside |-> TRUE,
        path |-> Append(acc, toUint16(v))]
  ELSE walkParents(parent, read.value, source, n,
                   Append(acc, toUint16(v)), read, TRUE)

\* std::reverse
reverse(s) == [i \in 1..Len(s) |-> s[Len(s) + 1 - i]]

\* struct PathComputation, default-constructed, with an error message;
\* outside: a read outside parent happened, returned: bellmanFord came to
\* its end
pathError(message) ==
  [reachable |-> FALSE, distance |-> 0, path |-> <<>>, error |-> message,
   outside |-> FALSE, returned |-> TRUE]

\* dist and parent as bellmanFord sets them up before its first pass; no
\* sum has been evaluated yet
initialDistances(n, source) ==
  [dist |-> [i \in 1..n |-> IF i = source + 1 THEN 0 ELSE kInfinity],
   parent |-> [i \in 1..n |-> -1],
   updated |-> FALSE,
   largest |-> 0]

\* bellmanFord, with what a read outside parent yields
bellmanFordReading(graph, source, target, read) ==
  LET n == graph.vertexCount
      rebuilt(dist, path, outside) ==
        IF path = <<>> \/ path[1] # source
        THEN [pathError(kMsgPathRebuild) EXCEPT !.outside = outside]
        ELSE [reachable |-> TRUE, distance |-> dist[target + 1],
              path |-> path, error |-> <<>>, outside |-> outside,
              returned |-> TRUE]
      walked(dist, walk) ==
        IF ~walk.ended
        THEN [reachable |-> FALSE, distance |-> 0, path |-> <<>>,
              error |-> <<>>, outside |-> walk.outside, returned |-> FALSE]
        ELSE rebuilt(dist, reverse(walk.path), walk.outside)
      relaxed(final) ==
        IF final.dist[target + 1] = kInfinity
        THEN [reachable |-> FALSE, distance |-> kInfinity, path |-> <<>>,
              error |-> kMsgNoPath, outside |-> FALSE, returned |-> TRUE]
        ELSE walked(final.dist,
                    walkParents(final.parent, toInt16(target), source, n,
                                <<>>, read, FALSE))
      collectedTo(collected) ==
        IF collected.message # <<>> THEN pathError(collected.message)
        ELSE relaxed(relaxPasses(collected.edges, 0, n, source,
                                 initialDistances(n, source)))
      validatedTo(validation) ==
        IF ~validation.ok THEN pathError(validation.message)
        ELSE collectedTo(collectEdges(graph))
  IN
  IF graph.vertexCount = 0 THEN pathError(kMsgGraphUninit)
  ELSE IF source >= graph.vertexCount \/ target >= graph.vertexCount
  THEN pathError(kMsgVertexRange)
  ELSE validatedTo(validateGraph(graph))

\* bellmanFord on a graph of at most 32768 vertices, where no read of
\* parent falls outside the array
bellmanFord(graph, source, target) ==
  bellmanFordReading(graph, source, target, FaultingRead)
\* ------------------------------------------------------------------------
\* Server helpers and the two dispatchers (server.cpp)
\* ------------------------------------------------------------------------
\* struct ClientContext, default-constructed
NewContext == [graph |-> EmptyGraph, hasGraph |-> FALSE]

makeHeader(cmd, status, requestId) ==
  [command |-> cmd, status |-> status, requestId |-> requestId,
   payloadSize |-> 0, reserved |-> 0]

buildHelpText == kHelpText

\* makeErrorPayload with the status of buildPathResultPayload's error
makeErrorPayloadNotReady(message, header) ==
  [header |-> [header EXCEPT !.command = CmdError, !.status = StNotReady],
   payload |-> serializeString(message)]

\* makeErrorPayload that returns the text without its length prefix
makeErrorPayloadRaw(message, header) ==
  [header |-> [header EXCEPT !.command = CmdError,
                             !.status = StInvalidRequest],
   payload |-> message]

\* sets command and status of the response header, returns the payload
makeErrorPayload(message, header) ==
  [header |-> [header EXCEPT !.command = CmdError,
                             !.status = StInvalidRequest],
   payload |-> serializeString(message)]

\* makeOkStringPayload if it set the status and left the command of the
\* prepared header in place
makeOkStringPayloadKeepCommand(message, header) ==
  [header |-> [header EXCEPT !.status = StOk],
   payload |-> serializeString(message)]

makeOkStringPayload(message, header) ==
  [header |-> [header EXCEPT !.command = CmdHelp, !.status = StOk],
   payload |-> serializeString(message)]

decodeGraphPayload(payload) ==
  LET failed(errorMessage) ==
        [ok |-> FALSE, graph |-> EmptyGraph, error |-> errorMessage]
      validated(definition, validation) ==
        IF ~validation.ok THEN failed(validation.message)
        ELSE [ok |-> TRUE, graph |-> definition, error |-> <<>>]
      defined(definition) == validated(definition, validateGraph(definition))
      unpackedTo(encoded, unpacked) ==
        IF ~unpacked.ok THEN failed(unpacked.error)
        ELSE defined([vertexCount |-> encoded.vertexCount,
                      edgeCount |-> encoded.edgeCount,
                      incidence |-> unpacked.matrix,
                      weights |-> encoded.weights])
      decodedTo(encoded) ==
        IF ~encoded.ok THEN failed(encoded.error)
        ELSE unpackedTo(encoded.payload,
                        unpackIncidenceMatrix(encoded.payload.vertexCount,
                                              encoded.payload.edgeCount,
                                              encoded.payload.incidenceBits))
  IN decodedTo(deserializeUploadGraph(payload))

\* buildPathResultPayload if it left the status of the prepared header in
\* place when no path was found
buildPathResultPayloadKeepStatus(result, header) ==
  IF ~result.reachable
  THEN [header |-> [header EXCEPT !.command = CmdError],
        payload |-> serializeString(IF result.error = <<>>
                                    THEN kMsgPathNotFoundDefault
                                    ELSE result.error)]
  ELSE [header |-> [header EXCEPT !.command = CmdPathResult,
                                  !.status = StOk],
        payload |-> serializePathResult([distance |-> result.distance,
                                         path |-> result.path])]

buildPathResultPayload(result, header) ==
  IF ~result.reachable
  THEN [header |-> [header EXCEPT !.command = CmdError,
                                  !.status = StNotReady],
        payload |-> serializeString(IF result.error = <<>>
                                    THEN kMsgPathNotFoundDefault
                                    ELSE result.error)]
  ELSE [header |-> [header EXCEPT !.command = CmdPathResult,
                                  !.status = StOk],
        payload |-> serializePathResult([distance |-> result.distance,
                                         path |-> result.path])]

\* the bytes sendTcpMessage writes: payloadSize is set from the payload
sendTcpMessage(header, payload) ==
  serializeHeader([header EXCEPT !.payloadSize = Len(payload)]) \o payload

\* the packet sendUdpMessage passes to sendto
sendUdpMessage(header, payload) ==
  serializeHeader([header EXCEPT !.payloadSize = Len(payload)]) \o payload

\* sendUdpAck with the request id left at zero
sendUdpAckZero(requestId) ==
  sendUdpMessage(makeHeader(CmdAck, StOk, 0), <<>>)

\* the packet sendUdpAck sends: an Ack header with an empty payload
sendUdpAck(requestId) ==
  sendUdpMessage(makeHeader(CmdAck, StOk, requestId), <<>>)

\* the session-table key of a client address, "host:port"
addrToKey(addr) == <<addr.ip, addr.port>>

\* the switch of handleTcpClient on one request that was read completely:
\* the context afterwards, the response, and whether the worker returns
handleTcpClient(context, requestHeader, payload) ==
  LET responseHeader == makeHeader(CmdError, StInvalidRequest,
                                   requestHeader.requestId)
      reply(r, ctx) == [context |-> ctx, header |-> r.header,
                        payload |-> r.payload, exit |-> FALSE]
      uploaded(graphDefinition) ==
        IF ~graphDefinition.ok
        THEN reply(makeErrorPayload(graphDefinition.error, responseHeader),
                   context)
        ELSE [context |-> [graph |-> graphDefinition.graph,
                           hasGraph |-> TRUE],
              header |-> [responseHeader EXCEPT !.command = CmdUploadGraph,
                                                !.status = StOk],
              payload |-> serializeString(kMsgGraphAccepted),
              exit |-> FALSE]
      queried(query) ==
        IF ~query.ok
        THEN reply(makeErrorPayload(kMsgBadPathQuery, responseHeader),
                   context)
        ELSE IF ~context.hasGraph
        THEN reply(makeErrorPayload(kMsgNoGraphTcp, responseHeader), context)
        ELSE reply(buildPathResultPayload(
                     bellmanFord(context.graph, query.payload.source,
                                 query.payload.target),
                     responseHeader),
                   context)
  IN
  CASE requestHeader.command = CmdHelp ->
         reply(makeOkStringPayload(buildHelpText, responseHeader), context)
    [] requestHeader.command = CmdUploadGraph ->
         uploaded(decodeGraphPayload(payload))
    [] requestHeader.command = CmdPathQuery ->
         queried(deserializePathQuery(payload))
    [] requestHeader.command = CmdExit ->
         [context |-> context,
          header |-> [responseHeader EXCEPT !.command = CmdExit,
                                            !.status = StOk],
          payload |-> serializeString(kMsgGoodbye),
          exit |-> TRUE]
    [] OTHER ->
         reply(makeErrorPayload(kMsgUnknownCommand, responseHeader), context)

\* a lookup that assigns a new context instead of inserting one when absent
clientsLookupFresh(table, key) ==
  [k \in DOMAIN table \cup {key} |->
     IF k = key THEN NewContext ELSE table[k]]

\* clients[key] of the session table: the entry is created when absent
clientsLookup(table, key) ==
  IF key \in DOMAIN table THEN table ELSE table @@ (key :> NewContext)

\* an erase that removes nothing
clientsEraseKeep(table, key) == table

\* clients.erase(key)
clientsErase(table, key) ==
  [k \in DOMAIN table \ {key} |-> table[k]]

\* the body of runUdpServer's loop after the Ack was sent: the table
\* lookup and the switch; the table afterwards and the response
runUdpServer(table, clientAddr, requestHeader, payload) ==
  LET key == addrToKey(clientAddr)
      responseHeader == makeHeader(CmdError, StInvalidRequest,
                                   requestHeader.requestId)
      reply(r, tbl) == [clients |-> tbl, header |-> r.header,
                        payload |-> r.payload]
      uploaded(looked, graphDefinition) ==
        IF ~graphDefinition.ok
        THEN reply(makeErrorPayload(graphDefinition.error, responseHeader),
                   looked)
        ELSE [clients |-> [looked EXCEPT
                             ![key] = [graph |-> graphDefinition.graph,
                                       hasGraph |-> TRUE]],
              header |-> [responseHeader EXCEPT !.command = CmdUploadGraph,
                                                !.status = StOk],
              payload |-> serializeString(kMsgGraphAccepted)]
      queried(looked, context, query) ==
        IF ~query.ok
        THEN reply(makeErrorPayload(kMsgBadPathQuery, responseHeader),
                   looked)
        ELSE IF ~context.hasGraph
        THEN reply(makeErrorPayload(kMsgNoGraphUdp, responseHeader), looked)
        ELSE reply(buildPathResultPayload(
                     bellmanFord(context.graph, query.payload.source,
                                 query.payload.target),
                     responseHeader),
                   looked)
      switch(looked) ==
        CASE requestHeader.command = CmdHelp ->
               reply(makeOkStringPayload(buildHelpText, responseHeader),
                     looked)
          [] requestHeader.command = CmdUploadGraph ->
               uploaded(looked, decodeGraphPayload(payload))
          [] requestHeader.command = CmdPathQuery ->
               queried(looked, looked[key], deserializePathQuery(payload))
          [] requestHeader.command = CmdExit ->
               [clients |-> clientsErase(looked, key),
                header |-> [responseHeader EXCEPT !.command = CmdExit,
                                                  !.status = StOk],
                payload |-> serializeString(kMsgGoodbye)]
          [] OTHER ->
               reply(makeErrorPayload(kMsgUnknownCommand, responseHeader),
                     looked)
  IN switch(clientsLookup(table, key))

\* ------------------------------------------------------------------------
\* Client helpers (client.cpp)
\* ------------------------------------------------------------------------
buildUploadPayload(graphDef) ==
  serializeUploadGraph([vertexCount |-> graphDef.vertexCount,
                        edgeCount |-> graphDef.edgeCount,
                        incidenceBits |-> packIncidenceMatrix(graphDef.incidence),
                        weights |-> graphDef.weights])

\* ------------------------------------------------------------------------
\* Inputs the model enumerates
\* ------------------------------------------------------------------------
\* the graph with n vertices whose e-th edge joins ends[e][1] and ends[e][2]
\* (zero-based vertices; equal ends make a self-loop; three ends are
\* allowed so that an invalid column can be written down)
GraphOf(n, ends, weights) ==
  [vertexCount |-> n, edgeCount |-> Len(ends),
   incidence |-> [v \in 1..n |->
                   [e \in 1..Len(ends) |->
                     IF \E k \in 1..Len(ends[e]) : ends[e][k] = v - 1
                     THEN 1 ELSE 0]],
   weights |-> weights]

\* the 6-vertex cycle of the end-to-end example, all weights 1
Cycle6 ==
  GraphOf(6, <<<<0, 1>>, <<1, 2>>, <<2, 3>>, <<3, 4>>, <<4, 5>>, <<5, 0>>>>,
          <<1, 1, 1, 1, 1, 1>>)

\* a triangle 0-1-2, a path 3-4-5 and a self-loop on 5: valid, and
\* vertices 3..5 are unreachable from 0..2
Islands ==
  GraphOf(6, <<<<0, 1>>, <<1, 2>>, <<0, 2>>, <<3, 4>>, <<4, 5>>, <<5, 5>>>>,
          <<2, 3, 7, 1, 1, 0>>)

\* only five vertices
FiveVertices ==
  GraphOf(5, <<<<0, 1>>, <<1, 2>>, <<2, 3>>, <<3, 4>>, <<4, 0>>, <<0, 2>>>>,
          <<1, 1, 1, 1, 1, 1>>)

\* an edge with three endpoints
ThreeEnds ==
  GraphOf(6, <<<<0, 1, 2>>, <<1, 2>>, <<2, 3>>, <<3, 4>>, <<4, 5>>,
             <<5, 0>>>>,
          <<1, 1, 1, 1, 1, 1>>)

\* a weight above the infinity sentinel
HeavyEdge ==
  GraphOf(6, <<<<0, 1>>, <<1, 2>>, <<2, 3>>, <<3, 4>>, <<4, 5>>, <<5, 0>>>>,
          <<1, 1, kInfinity + 1, 1, 1, 1>>)

ValidGraphs == {Cycle6, Islands}
InvalidGraphs == {FiveVertices, ThreeEnds, HeavyEdge}
TestGraphs == ValidGraphs \cup InvalidGraphs

\* payloads laid out as serializeUploadGraph lays them out, whose counts
\* disagree: Cycle6 with a bit block one byte short and one byte long, and
\* with five and with seven weights
MismatchedUploads ==
  LET bits == packIncidenceMatrix(Cycle6.incidence)
      encoded(incidenceBits, weights) ==
        serializeUploadGraph([vertexCount |-> Cycle6.vertexCount,
                              edgeCount |-> Cycle6.edgeCount,
                              incidenceBits |-> incidenceBits,
                              weights |-> weights])
  IN {encoded(SubSeq(bits, 1, Len(bits) - 1), Cycle6.weights),
      encoded(bits \o <<0>>, Cycle6.weights),
      encoded(bits, SubSeq(Cycle6.weights, 1, 5)),
      encoded(bits, Cycle6.weights \o <<1>>)}

\* payloads that are not the encoding of any graph: a truncated encoding,
\* an encoding followed by one more byte, no bytes at all, and the ones
\* whose counts disagree
MalformedUploads ==
  {SubSeq(buildUploadPayload(Cycle6), 1, Len(buildUploadPayload(Cycle6)) - 1),
   buildUploadPayload(Cycle6) \o <<0>>,
   <<>>}
  \cup MismatchedUploads

\* the graph whose encoding a payload is, EmptyGraph when it is none
sourceGraph(payload) ==
  IF \E g \in TestGraphs : buildUploadPayload(g) = payload
  THEN CHOOSE g \in TestGraphs : buildUploadPayload(g) = payload
  ELSE EmptyGraph

\* the i-th peer address (host and port of a sockaddr_in)
PeerAddr(i) == [ip |-> 1 + (i % 2), port |-> 40000 + (i \div 2)]

Peers == 1..NumPeers

\* the peer whose address has the given session-table key
peerOfKey(key) == CHOOSE i \in Peers : addrToKey(PeerAddr(i)) = key

\* the requests the server is fed: a command byte and a payload
TestRequests ==
  {[command |-> CmdHelp, payload |-> <<>>],
   [command |-> CmdExit, payload |-> <<>>],
   [command |-> CmdPathResult, payload |-> <<>>],
   [command |-> 9, payload |-> <<>>],
   [command |-> CmdError, payload |-> <<>>],
   [command |-> CmdAck, payload |-> <<>>],
   [command |-> 0, payload |-> <<>>],
   [command |-> 255, payload |-> <<>>],
   [command |-> CmdPathQuery, payload |-> <<0, 0, 3>>],
   [command |-> CmdPathQuery, payload |-> <<0, 0, 0, 3, 0>>]}
  \cup {[command |-> CmdUploadGraph, payload |-> buildUploadPayload(g)] :
          g \in TestGraphs}
  \cup {[command |-> CmdUploadGraph, payload |-> p] : p \in MalformedUploads}
  \cup {[command |-> CmdPathQuery,
         payload |-> serializePathQuery([source |-> st[1], target |-> st[2]])] :
          st \in {<<0, 3>>, <<0, 4>>, <<0, 9>>}}

\* the request id the fed requests carry
TestRequestId == 7

\* the header a well-behaved sender puts in front of a request
requestHeaderOf(req) ==
  [command |-> req.command, status |-> StOk, requestId |-> TestRequestId,
   payloadSize |-> Len(req.payload), reserved |-> 0]

\* a header whose payloadSize is one above the ceiling
OversizeHeader ==
  serializeHeader([command |-> CmdHelp, status |-> StOk,
                   requestId |-> TestRequestId,
                   payloadSize |-> kMaxPayloadSize + 1, reserved |-> 0])

\* the messages a TCP worker is fed: every request behind its header, and
\* an oversize header
TestTcpMessages ==
  {[headerBuf |-> serializeHeader(requestHeaderOf(req)),
    payload |-> req.payload] : req \in TestRequests}
  \cup {[headerBuf |-> OversizeHeader, payload |-> <<>>]}

\* the datagrams the UDP server is fed: every request behind its header, a
\* datagram shorter than a header, and a datagram with an oversize header
TestDatagrams ==
  {serializeHeader(requestHeaderOf(req)) \o req.payload : req \in TestRequests}
  \cup {<<CmdHelp, 0, 0, 7, 0>>, OversizeHeader}

\* ------------------------------------------------------------------------
\* State
\* ------------------------------------------------------------------------
VARIABLES
  transport,   \* "tcp" or "udp": the server main's choice of runTcpServer
               \* or runUdpServer
  tcp,         \* per connection: the worker's position and its ClientContext
  clients,     \* runUdpServer's session table: key -> ClientContext
  srvPc,       \* the server process: "recv" while it runs (runUdpServer is
               \* at its recvfrom), "acked" after runUdpServer sent the
               \* Ack, "killed" after a signal terminated the process
  srvReq,      \* the datagram runUdpServer is handling
  udpOut,      \* the datagrams runUdpServer sent for the datagram it
               \* received last
  c2s,         \* datagrams in flight to the server (bag)
  s2c,         \* datagrams in flight to the clients (bag)
  accepted,    \* per peer: the graph whose upload was answered
               \* UploadGraph/Ok last in the peer's session
  lastEvent,   \* the request the server handled in the last step, its
               \* response, and the session before it
  dups,        \* number of datagrams the network duplicated so far
  injected,    \* number of foreign datagrams sent to the client so far
  cliPc,       \* the client's position: "prompt" (reading a command),
               \* "send", "wait1", "wait2" (in sendUdpWithAck), "read" (in
               \* runTcpClient's readTcpMessage), "stopped"
  requestCounter, \* UdpConnection::requestCounter
  issued,      \* number of requests the client has issued
  cliReq,      \* header, payload and packet of the current sendUdpWithAck
               \* call, and the graph an upload carries
  attempt,     \* the loop variable of sendUdpWithAck
  sentLog,     \* the packets the current call passed to sendto with success
  sendFailed,  \* whether sendto reported an error in the current call
  heard,       \* whether the current call read a datagram whose header
               \* carries the id of its request
  waitOutcome, \* how the last select/recvfrom of the current call ended
  cliResult,   \* what the last sendUdpWithAck call returned
  cliState,    \* ClientState: the graph the client believes is loaded
  toSrv,       \* the TCP connection, client to worker: the messages written
               \* and not yet read
  toCli,       \* the TCP connection, worker to client
  wkOut,       \* the response the TCP worker built and has not yet written
  tcLog,       \* the complete messages the two ends of the TCP connection
               \* wrote and read so far, in order
  frSource,    \* the messages whose bytes a sender writes on a stream
  frArrived,   \* how many bytes of the stream the send calls of sendAll
               \* have passed on so far
  frOffset,    \* how many bytes of the stream recv calls have returned
  frPc,        \* readTcpMessage at the reading end: "header" or "payload"
               \* (in the recvExact for it), "badHeader" (returned false
               \* after deserializeHeader), "closed" (returned false after
               \* a recv that returned 0)
  frBuf,       \* the bytes the current recvExact has received
  frHeader,    \* the header readTcpMessage decoded for the current message
  frRead,      \* the messages readTcpMessage returned so far
  frProbe,     \* the last buffer deserializeHeader was applied to on its
               \* own, and the result
  cdHeader,    \* a MessageHeader handed to serializeHeader
  cdBytes,     \* what serializeHeader returned for it
  cdDecoded,   \* what deserializeHeader returned for those bytes
  cdPc,        \* "start", "serialized", "deserialized"
  fnArg,       \* the value a function of the codec or of the graph engine
               \* is called with, and the kind of value it is
  fnBytes,     \* the bytes the serializer returned for it
  fnShape,     \* "whole", or how the bytes were changed: "cut", "extended"
  fnResult,    \* what the function, or the deserializer, returned
  fnPc         \* "start", "serialized", "done"

srvVars == <<transport, tcp, clients, srvPc, srvReq, udpOut, accepted,
             lastEvent>>
netVars == <<c2s, s2c, dups, injected>>
cliVars == <<cliPc, requestCounter, issued, cliReq, attempt, sentLog,
             sendFailed, heard, waitOutcome, cliResult, cliState>>

connVars == <<toSrv, toCli, wkOut, tcLog>>

frameVars == <<frSource, frArrived, frOffset, frPc, frBuf, frHeader, frRead,
              frProbe>>

codecVars == <<cdHeader, cdBytes, cdDecoded, cdPc>>

callVars == <<fnArg, fnBytes, fnShape, fnResult, fnPc>>

\* the variables that belong to the other specifications
restVars == <<connVars, frameVars, codecVars, callVars>>


NoRequest == [addr |-> PeerAddr(1), header |-> NoHeader, payload |-> <<>>]

\* lastEvent after a step that handled no request
NoEvent ==
  [kind |-> "none", peer |-> 0, header |-> NoHeader, payload |-> <<>>,
   response |-> <<>>, before |-> NewContext, existed |-> FALSE,
   sent |-> "none"]

\* the session of a peer in the UDP table: a peer without an entry has the
\* context a lookup would create
udpContext(table, i) ==
  IF addrToKey(PeerAddr(i)) \in DOMAIN table
  THEN table[addrToKey(PeerAddr(i))] ELSE NewContext

InitServer ==
  /\ transport \in {"tcp", "udp"}
  /\ tcp = [c \in Peers |-> [state |-> "none", context |-> NewContext]]
  /\ clients = <<>>
  /\ srvPc = "recv"
  /\ srvReq = NoRequest
  /\ udpOut = <<>>
  /\ c2s = EmptyBag
  /\ s2c = EmptyBag
  /\ accepted = [i \in Peers |-> EmptyGraph]
  /\ lastEvent = NoEvent
  /\ dups = 0
  /\ injected = 0

\* the ghost record of accepted uploads after a request was answered
acceptedAfter(i, header, payload, response) ==
  IF header.command = CmdExit
  THEN [accepted EXCEPT ![i] = EmptyGraph]
  ELSE IF header.command = CmdUploadGraph /\ response[1] = CmdUploadGraph
  THEN [accepted EXCEPT ![i] = sourceGraph(payload)]
  ELSE accepted

\* ------------------------------------------------------------------------
\* TCP server (runTcpServer, handleTcpClient)
\* ------------------------------------------------------------------------
\* accept() returns a connection and a detached worker starts on it
TcpAccept(c) ==
  /\ transport = "tcp"
  /\ srvPc # "killed"
  /\ tcp[c].state = "none"
  /\ tcp' = [tcp EXCEPT ![c] = [state |-> "open", context |-> NewContext]]
  /\ lastEvent' = NoEvent
  /\ UNCHANGED <<transport, clients, srvPc, srvReq, udpOut, accepted>>
  /\ UNCHANGED netVars
  /\ UNCHANGED cliVars
  /\ UNCHANGED restVars

\* how a send() on a stream socket can end (sendAll calls it with flags 0
\* and the process keeps the default disposition of SIGPIPE): all bytes
\* taken, an error return, or, when the peer has closed its socket, the
\* signal SIGPIPE, which terminates the process
SendResults == {"ok", "error", "sigpipe"}

\* one pass of the worker's loop in which recvExact delivered the twelve
\* header bytes headerBuf: when the header does not decode, readTcpMessage
\* fails, the worker leaves the loop and closes the socket; otherwise the
\* stream delivers the payloadSize bytes of the payload, the request is
\* dispatched and the response is written (sendResult: how the send calls
\* of sendTcpMessage ended; after Exit an error return is ignored and the
\* worker returns)
TcpWorkerStep(c, headerBuf, payload, sendResult) ==
  LET closedConn == [state |-> "closed", context |-> NewContext]
      answered(header, r, response) ==
        /\ tcp' = IF sendResult = "sigpipe"
                  THEN [d \in Peers |->
                          IF tcp[d].state = "none" THEN tcp[d] ELSE closedConn]
                  ELSE [tcp EXCEPT ![c] =
                          IF r.exit \/ sendResult = "error" THEN closedConn
                          ELSE [state |-> "open", context |-> r.context]]
        /\ accepted' =
             IF sendResult = "sigpipe" THEN [d \in Peers |-> EmptyGraph]
             ELSE IF r.exit \/ sendResult = "error"
             THEN [accepted EXCEPT ![c] = EmptyGraph]
             ELSE acceptedAfter(c, header, payload, response)
        /\ srvPc' = IF sendResult = "sigpipe" THEN "killed" ELSE srvPc
        /\ lastEvent' = [kind |-> "tcp", peer |-> c, header |-> header,
                         payload |-> payload, response |-> response,
                         before |-> tcp[c].context, existed |-> TRUE,
                         sent |-> sendResult]
      handled(header, r) ==
        answered(header, r, sendTcpMessage(r.header, r.payload))
      decodedTo(decoded) ==
        IF ~decoded.ok
        THEN /\ payload = <<>>
             /\ sendResult = "ok"
             /\ tcp' = [tcp EXCEPT ![c] = closedConn]
             /\ accepted' = [accepted EXCEPT ![c] = EmptyGraph]
             /\ srvPc' = srvPc
             /\ lastEvent' = [NoEvent EXCEPT !.kind = "tcpBadHeader",
                                             !.peer = c]
        ELSE /\ Len(payload) = decoded.header.payloadSize
             /\ handled(decoded.header,
                        handleTcpClient(tcp[c].context, decoded.header,
                                        payload))
  IN
  /\ transport = "tcp"
  /\ srvPc # "killed"
  /\ tcp[c].state = "open"
  /\ decodedTo(deserializeHeader(headerBuf))
  /\ UNCHANGED <<transport, clients, srvReq, udpOut>>
  /\ UNCHANGED netVars
  /\ UNCHANGED cliVars
  /\ UNCHANGED restVars

\* one pass of the worker's loop in which recvExact failed (the peer closed
\* the connection, or a read returned an error): the worker leaves the loop
\* and closes the socket
TcpReadFail(c) ==
  /\ transport = "tcp"
  /\ srvPc # "killed"
  /\ tcp[c].state = "open"
  /\ wkOut = <<>>
  /\ tcp' = [tcp EXCEPT ![c] = [state |-> "closed", context |-> NewContext]]
  /\ accepted' = [accepted EXCEPT ![c] = EmptyGraph]
  /\ lastEvent' = NoEvent
  /\ UNCHANGED <<transport, clients, srvPc, srvReq, udpOut>>
  /\ UNCHANGED netVars
  /\ UNCHANGED cliVars
  /\ UNCHANGED restVars

\* ------------------------------------------------------------------------
\* UDP server (runUdpServer)
\* ------------------------------------------------------------------------
\* a datagram in flight: the client address (source on the way to the
\* server, destination on the way back) and the bytes
Datagram(addr, bytes) == [addr |-> addr, bytes |-> bytes]

\* a bag with one copy of d removed
BagRemove(bag, d) == bag (-) SetToBag({d})

\* a bag with one copy of d added
BagAdd(bag, d) == bag (+) SetToBag({d})

\* the first part of a pass of runUdpServer's loop: recvfrom returns the
\* datagram d; a datagram shorter than a header or with a header that does
\* not decode is skipped; otherwise the Ack is sent
UdpServerRecv(d) ==
  LET skipped ==
        /\ udpOut' = <<>>
        /\ lastEvent' = [NoEvent EXCEPT
                           !.kind = "udpSkipped",
                           !.peer = peerOfKey(addrToKey(d.addr))]
        /\ UNCHANGED <<srvPc, srvReq, s2c>>
      acked(header, ack) ==
        /\ s2c' = BagAdd(s2c, ack)
        /\ udpOut' = <<ack>>
        /\ srvPc' = "acked"
        /\ lastEvent' = NoEvent
        /\ srvReq' = [addr |-> d.addr, header |-> header,
                      payload |-> SubSeq(d.bytes, kHeaderSize + 1,
                                         Len(d.bytes))]
      decodedTo(decoded) ==
        IF ~decoded.ok THEN skipped
        ELSE acked(decoded.header,
                   Datagram(d.addr, sendUdpAck(decoded.header.requestId)))
  IN
  /\ transport = "udp"
  /\ srvPc = "recv"
  /\ BagIn(d, c2s)
  /\ c2s' = BagRemove(c2s, d)
  /\ IF Len(d.bytes) < kHeaderSize THEN skipped
     ELSE decodedTo(deserializeHeader(SubSeq(d.bytes, 1, kHeaderSize)))
  /\ UNCHANGED <<transport, tcp, clients, accepted, dups, injected>>
  /\ UNCHANGED cliVars
  /\ UNCHANGED restVars

\* the rest of the pass: the session lookup, the switch and the response
UdpServerDispatch ==
  LET i == peerOfKey(addrToKey(srvReq.addr))
      sent(r, packet) ==
        /\ clients' = r.clients
        /\ s2c' = BagAdd(s2c, Datagram(srvReq.addr, packet))
        /\ udpOut' = Append(udpOut, Datagram(srvReq.addr, packet))
        /\ accepted' = acceptedAfter(i, srvReq.header, srvReq.payload, packet)
        /\ lastEvent' = [kind |-> "udp", peer |-> i,
                         header |-> srvReq.header,
                         payload |-> srvReq.payload, response |-> packet,
                         before |-> udpContext(clients, i),
                         existed |-> addrToKey(srvReq.addr) \in DOMAIN clients,
                         sent |-> "ok"]
      handled(r) == sent(r, sendUdpMessage(r.header, r.payload))
  IN
  /\ transport = "udp"
  /\ srvPc = "acked"
  /\ handled(runUdpServer(clients, srvReq.addr, srvReq.header,
                          srvReq.payload))
  /\ srvPc' = "recv"
  /\ srvReq' = NoRequest
  /\ UNCHANGED <<transport, tcp, c2s, dups, injected>>
  /\ UNCHANGED cliVars
  /\ UNCHANGED restVars

\* a datagram on its way to a client is lost, or its receiver drops it
NetLoseReply(d) ==
  /\ BagIn(d, s2c)
  /\ s2c' = BagRemove(s2c, d)
  /\ UNCHANGED <<c2s, dups, injected>>
  /\ UNCHANGED srvVars
  /\ UNCHANGED cliVars
  /\ UNCHANGED restVars

\* the network delivers a second copy of a datagram on its way to a client
\* that waits
NetDuplicateReply(d) ==
  /\ dups < MaxDup
  /\ cliPc \in {"wait1", "wait2"}
  /\ BagIn(d, s2c)
  /\ s2c' = BagAdd(s2c, d)
  /\ dups' = dups + 1
  /\ UNCHANGED <<c2s, injected>>
  /\ UNCHANGED srvVars
  /\ UNCHANGED cliVars
  /\ UNCHANGED restVars

\* a peer of the server run sends the server a datagram and waits for what
\* comes back before it sends the next one
UdpPeerSend(i, bytes) ==
  /\ transport = "udp"
  /\ srvPc = "recv"
  /\ c2s = EmptyBag
  /\ s2c = EmptyBag
  /\ c2s' = BagAdd(c2s, Datagram(PeerAddr(i), bytes))
  /\ UNCHANGED <<s2c, dups, injected>>
  /\ UNCHANGED srvVars
  /\ UNCHANGED cliVars
  /\ UNCHANGED restVars

\* ------------------------------------------------------------------------
\* UDP client (runUdpClient, sendUdpWithAck)
\* ------------------------------------------------------------------------
\* the address the client's socket is bound to
ClientAddr == PeerAddr(1)

\* the sizes of the client's two receive buffers
kRecvBufSize == 2048
kRespBufSize == 65536

kMaxVertices == 65535
kMaxEdges == 65535

\* the client's check of a graph it read: the counts only
validateCounts(graphDef) ==
  /\ ~(graphDef.vertexCount < 6)
  /\ ~(graphDef.vertexCount > kMaxVertices)
  /\ ~(graphDef.edgeCount < 6)
  /\ ~(graphDef.edgeCount > kMaxEdges)

\* the graphs the user of the client enters
ClientGraphs == {Cycle6, FiveVertices}

\* the vertex pairs the user of the client asks for
ClientQueries == {<<0, 3>>, <<0, 6>>}

\* datagrams other hosts send to the client's socket: one shorter than a
\* header, and one whose header announces more than kMaxPayloadSize
ForeignDatagrams == {<<CmdAck, 0, 0, 1, 0>>, OversizeHeader}

\* std::optional of (header, payload)
NoResult == [some |-> FALSE, header |-> NoHeader, payload |-> <<>>]
SomeResult(header, payload) ==
  [some |-> TRUE, header |-> header, payload |-> payload]

NoClientRequest ==
  [header |-> NoHeader, payload |-> <<>>, packet |-> <<>>,
   graph |-> EmptyGraph]

InitClient ==
  /\ cliPc = "prompt"
  /\ requestCounter = 1
  /\ issued = 0
  /\ cliReq = NoClientRequest
  /\ attempt = 0
  /\ sentLog = <<>>
  /\ sendFailed = FALSE
  /\ heard = FALSE
  /\ waitOutcome = "none"
  /\ cliResult = NoResult
  /\ cliState = [graph |-> EmptyGraph, graphLoaded |-> FALSE]

\* nextRequestId if the counter were never incremented
nextRequestIdSame(counter) == counter

\* nextRequestId: the counter is a uint16_t
nextRequestId(counter) == (counter + 1) % 65536

\* the start of a sendUdpWithAck call: the packet is built once
callSendUdpWithAck(header, payload, graphDef) ==
  /\ cliReq' = [header |-> header, payload |-> payload,
                packet |-> serializeHeader(header) \o payload,
                graph |-> graphDef]
  /\ requestCounter' = nextRequestId(requestCounter)
  /\ issued' = issued + 1
  /\ attempt' = 1
  /\ sentLog' = <<>>
  /\ sendFailed' = FALSE
  /\ heard' = FALSE
  /\ waitOutcome' = "none"
  /\ cliResult' = NoResult
  /\ cliPc' = "send"
  /\ UNCHANGED cliState

\* the commands "input" and "load" with a graph that was read
ClientUpload(graphDef) ==
  LET call(payload) ==
        callSendUdpWithAck(
          [command |-> CmdUploadGraph, status |-> StOk,
           requestId |-> requestCounter, payloadSize |-> Len(payload),
           reserved |-> 0], payload, graphDef)
  IN
  /\ cliPc = "prompt"
  /\ issued < MaxRequests
  /\ IF validateCounts(graphDef) THEN call(buildUploadPayload(graphDef))
     ELSE UNCHANGED cliVars
  /\ UNCHANGED srvVars
  /\ UNCHANGED netVars
  /\ UNCHANGED restVars

\* the command "query <source> <target>"
ClientQuery(source, target) ==
  LET call(payload) ==
        callSendUdpWithAck(
          [command |-> CmdPathQuery, status |-> StOk,
           requestId |-> requestCounter, payloadSize |-> Len(payload),
           reserved |-> 0], payload, EmptyGraph)
  IN
  /\ cliPc = "prompt"
  /\ issued < MaxRequests
  /\ IF /\ cliState.graphLoaded
        /\ source < cliState.graph.vertexCount
        /\ target < cliState.graph.vertexCount
     THEN call(serializePathQuery([source |-> source, target |-> target]))
     ELSE UNCHANGED cliVars
  /\ UNCHANGED srvVars
  /\ UNCHANGED netVars
  /\ UNCHANGED restVars

\* the command "exit"
ClientExit ==
  /\ cliPc = "prompt"
  /\ issued < MaxRequests
  /\ callSendUdpWithAck(
       [command |-> CmdExit, status |-> StOk, requestId |-> requestCounter,
        payloadSize |-> 0, reserved |-> 0], <<>>, EmptyGraph)
  /\ UNCHANGED srvVars
  /\ UNCHANGED netVars
  /\ UNCHANGED restVars

\* a return to a loop of runUdpClient that goes on to the next command
\* after a call without a response
returnToClientGoOn(result) ==
  /\ cliResult' = result
  /\ cliPc' = IF cliReq.header.command = CmdExit THEN "stopped" ELSE "prompt"
  /\ cliState' = IF /\ cliReq.header.command = CmdUploadGraph
                    /\ result.some
                    /\ result.header.status = StOk
                 THEN [graph |-> cliReq.graph, graphLoaded |-> TRUE]
                 ELSE cliState

\* sendUdpWithAck returns result to runUdpClient: after "exit" and after a
\* call without a response the client leaves its loop; a response with
\* status Ok to an upload makes the uploaded graph the client's graph
returnToClient(result) ==
  /\ cliResult' = result
  /\ cliPc' = IF cliReq.header.command = CmdExit \/ ~result.some
              THEN "stopped" ELSE "prompt"
  /\ cliState' = IF /\ cliReq.header.command = CmdUploadGraph
                    /\ result.some
                    /\ result.header.status = StOk
                 THEN [graph |-> cliReq.graph, graphLoaded |-> TRUE]
                 ELSE cliState

\* a loop condition that admits one more pass
attemptAllowedOneMore(a) == a <= kAckRetries + 1

\* the condition of the loop of sendUdpWithAck
attemptAllowed(a) == a <= kAckRetries

\* the end of a pass in a loop that does not count its passes
nextAttemptStuck ==
  /\ attempt' = attempt
  /\ cliPc' = "send"
  /\ UNCHANGED <<cliResult, cliState>>

\* the end of a pass of the loop of sendUdpWithAck that did not return: the
\* increment and the test of the loop
nextAttempt ==
  /\ attempt' = attempt + 1
  /\ IF attemptAllowed(attempt + 1)
     THEN /\ cliPc' = "send"
          /\ UNCHANGED <<cliResult, cliState>>
     ELSE returnToClient(NoResult)

\* sendto at the head of a pass (ok: whether it succeeded)
ClientSend(ok) ==
  /\ cliPc = "send"
  /\ IF ok
     THEN /\ c2s' = BagAdd(c2s, Datagram(ClientAddr, cliReq.packet))
          /\ sentLog' = Append(sentLog, cliReq.packet)
          /\ cliPc' = "wait1"
          /\ UNCHANGED <<sendFailed, cliResult, cliState>>
     ELSE /\ sendFailed' = TRUE
          /\ returnToClient(NoResult)
          /\ UNCHANGED <<c2s, sentLog>>
  /\ UNCHANGED <<s2c, dups, injected>>
  /\ UNCHANGED <<requestCounter, issued, cliReq, attempt, heard, waitOutcome>>
  /\ UNCHANGED srvVars
  /\ UNCHANGED restVars

\* select returns without a readable socket, in the first or in the second
\* wait of a pass
ClientTimeout ==
  /\ cliPc \in {"wait1", "wait2"}
  /\ waitOutcome' = "timeout"
  /\ nextAttempt
  /\ UNCHANGED <<requestCounter, issued, cliReq, sentLog, sendFailed, heard>>
  /\ UNCHANGED srvVars
  /\ UNCHANGED netVars
  /\ UNCHANGED restVars

\* a recvfrom that keeps no more than the header of a datagram
recvfromHeaderOnly(bytes, size) ==
  IF Len(bytes) > kHeaderSize THEN SubSeq(bytes, 1, kHeaderSize) ELSE bytes

\* what recvfrom leaves of a datagram in a buffer of the given size
recvfrom(bytes, size) ==
  IF Len(bytes) > size THEN SubSeq(bytes, 1, size) ELSE bytes

\* the first wait of a pass: recvfrom returns the datagram d
ClientRecvAck(d) ==
  LET gotHeader(ackHeader, payloadPart) ==
        IF /\ ackHeader.command = CmdAck
           /\ ackHeader.requestId = cliReq.header.requestId
        THEN IF payloadPart = <<>>
             THEN /\ waitOutcome' = "ack"
                  /\ cliPc' = "wait2"
                  /\ UNCHANGED <<attempt, cliResult, cliState>>
             ELSE /\ waitOutcome' = "ackWithPayload"
                  /\ nextAttempt
        ELSE IF ackHeader.requestId = cliReq.header.requestId
             THEN /\ waitOutcome' = "answer"
                  /\ returnToClient(SomeResult(ackHeader, payloadPart))
                  /\ UNCHANGED attempt
             ELSE /\ waitOutcome' = "foreignId"
                  /\ nextAttempt
      decodedTo(decoded, payloadPart) ==
        IF ~decoded.ok
        THEN /\ waitOutcome' = "badHeader"
             /\ nextAttempt
             /\ UNCHANGED heard
        ELSE /\ gotHeader(decoded.header, payloadPart)
             /\ heard' = (heard \/ decoded.header.requestId
                                      = cliReq.header.requestId)
      received(recvBuf) ==
        IF Len(recvBuf) < kHeaderSize
        THEN /\ waitOutcome' = "short"
             /\ nextAttempt
             /\ UNCHANGED heard
        ELSE decodedTo(deserializeHeader(SubSeq(recvBuf, 1, kHeaderSize)),
                       SubSeq(recvBuf, kHeaderSize + 1, Len(recvBuf)))
  IN
  /\ cliPc = "wait1"
  /\ BagIn(d, s2c)
  /\ d.addr = ClientAddr
  /\ s2c' = BagRemove(s2c, d)
  /\ received(recvfrom(d.bytes, kRecvBufSize))
  /\ UNCHANGED <<c2s, dups, injected>>
  /\ UNCHANGED <<requestCounter, issued, cliReq, sentLog, sendFailed>>
  /\ UNCHANGED srvVars
  /\ UNCHANGED restVars

\* the second wait of a pass, after the Ack: recvfrom returns the datagram d
ClientRecvResponse(d) ==
  LET decodedTo(decoded, respPayload) ==
        IF ~decoded.ok
        THEN /\ waitOutcome' = "badHeader"
             /\ nextAttempt
        ELSE /\ waitOutcome' = "answer"
             /\ returnToClient(SomeResult(decoded.header, respPayload))
             /\ UNCHANGED attempt
      received(respBuf) ==
        IF Len(respBuf) < kHeaderSize
        THEN /\ waitOutcome' = "short"
             /\ nextAttempt
        ELSE decodedTo(deserializeHeader(SubSeq(respBuf, 1, kHeaderSize)),
                       SubSeq(respBuf, kHeaderSize + 1, Len(respBuf)))
  IN
  /\ cliPc = "wait2"
  /\ BagIn(d, s2c)
  /\ d.addr = ClientAddr
  /\ s2c' = BagRemove(s2c, d)
  /\ received(recvfrom(d.bytes, kRespBufSize))
  /\ UNCHANGED <<c2s, dups, injected>>
  /\ UNCHANGED <<requestCounter, issued, cliReq, sentLog, sendFailed, heard>>
  /\ UNCHANGED srvVars
  /\ UNCHANGED restVars

\* another host sends a datagram to the client's socket while the client
\* waits
NetInject(bytes) ==
  /\ injected < MaxInject
  /\ cliPc \in {"wait1", "wait2"}
  /\ s2c' = BagAdd(s2c, Datagram(ClientAddr, bytes))
  /\ injected' = injected + 1
  /\ UNCHANGED <<c2s, dups>>
  /\ UNCHANGED srvVars
  /\ UNCHANGED cliVars
  /\ UNCHANGED restVars

\* ------------------------------------------------------------------------
\* TCP client (runTcpClient) and the worker at the other end of its
\* connection, with whole messages as the unit of the stream
\* ------------------------------------------------------------------------
InitConn ==
  /\ toSrv = <<>>
  /\ toCli = <<>>
  /\ wkOut = <<>>
  /\ tcLog = <<>>

\* a message on the stream: the twelve header bytes and the payload
WireMessage(header, payload) ==
  [headerBuf |-> serializeHeader(header), payload |-> payload]

\* the message whose bytes are given
wireOf(bytes) ==
  [headerBuf |-> SubSeq(bytes, 1, kHeaderSize),
   payload |-> SubSeq(bytes, kHeaderSize + 1, Len(bytes))]

\* a client that goes back to its prompt without reading the response
tcpClientAfterSendNoRead(command) ==
  IF command = CmdExit THEN "stopped" ELSE "prompt"

\* where runTcpClient goes after sendTcpMessage succeeded: into
\* readTcpMessage, or, after Exit, out of the loop
tcpClientAfterSend(command) ==
  IF command = CmdExit THEN "stopped" ELSE "read"

\* sendTcpMessage of the client with the header as given and what follows
\* it; sendOk: whether sendAll succeeded (after Exit its result is ignored)
tcpClientSend(header, payload, graphDef, sendOk) ==
  /\ cliReq' = [header |-> header, payload |-> payload,
                packet |-> serializeHeader(header) \o payload,
                graph |-> graphDef]
  /\ issued' = issued + 1
  /\ IF sendOk
     THEN /\ toSrv' = Append(toSrv, WireMessage(header, payload))
          /\ tcLog' = Append(tcLog, [who |-> "client", what |-> "wrote",
                                     msg |-> WireMessage(header, payload)])
          /\ cliPc' = tcpClientAfterSend(header.command)
     ELSE /\ UNCHANGED <<toSrv, tcLog>>
          /\ cliPc' = "stopped"
  /\ UNCHANGED <<requestCounter, attempt, sentLog, sendFailed, heard,
                 waitOutcome, cliResult, cliState, toCli, wkOut>>

\* the commands "input" and "load" with a graph that was read
TcpClientUpload(graphDef, sendOk) ==
  /\ cliPc = "prompt"
  /\ issued < MaxTcpRequests
  /\ IF validateCounts(graphDef)
     THEN tcpClientSend([command |-> CmdUploadGraph, status |-> StOk,
                         requestId |-> 0,
                         payloadSize |-> Len(buildUploadPayload(graphDef)),
                         reserved |-> 0],
                        buildUploadPayload(graphDef), graphDef, sendOk)
     ELSE /\ sendOk
          /\ UNCHANGED cliVars
          /\ UNCHANGED connVars
  /\ UNCHANGED srvVars
  /\ UNCHANGED netVars
  /\ UNCHANGED <<frameVars, codecVars, callVars>>

\* the command "query <source> <target>"
TcpClientQuery(source, target, sendOk) ==
  LET send(payload) ==
        tcpClientSend([command |-> CmdPathQuery, status |-> StOk,
                       requestId |-> 0, payloadSize |-> Len(payload),
                       reserved |-> 0], payload, EmptyGraph, sendOk)
  IN
  /\ cliPc = "prompt"
  /\ issued < MaxTcpRequests
  /\ IF /\ cliState.graphLoaded
        /\ source < cliState.graph.vertexCount
        /\ target < cliState.graph.vertexCount
     THEN send(serializePathQuery([source |-> source, target |-> target]))
     ELSE /\ sendOk
          /\ UNCHANGED cliVars
          /\ UNCHANGED connVars
  /\ UNCHANGED srvVars
  /\ UNCHANGED netVars
  /\ UNCHANGED <<frameVars, codecVars, callVars>>

\* the command "exit": the request is written, no response is read and the
\* socket is closed
TcpClientExit(sendOk) ==
  /\ cliPc = "prompt"
  /\ issued < MaxTcpRequests
  /\ tcpClientSend([command |-> CmdExit, status |-> StOk, requestId |-> 0,
                    payloadSize |-> 0, reserved |-> 0], <<>>, EmptyGraph,
                   sendOk)
  /\ UNCHANGED srvVars
  /\ UNCHANGED netVars
  /\ UNCHANGED <<frameVars, codecVars, callVars>>

\* readTcpMessage of the client returns the next message of the stream;
\* a header that does not decode ends the loop
TcpClientRead ==
  LET got(m, decoded) ==
        IF ~decoded.ok
        THEN /\ cliPc' = "stopped"
             /\ UNCHANGED <<cliResult, cliState>>
        ELSE /\ cliPc' = "prompt"
             /\ cliResult' = SomeResult(decoded.header, m.payload)
             /\ cliState' = IF /\ cliReq.header.command = CmdUploadGraph
                               /\ decoded.header.status = StOk
                            THEN [graph |-> cliReq.graph, graphLoaded |-> TRUE]
                            ELSE cliState
  IN
  /\ cliPc = "read"
  /\ toCli # <<>>
  /\ got(Head(toCli), deserializeHeader(Head(toCli).headerBuf))
  /\ toCli' = Tail(toCli)
  /\ tcLog' = Append(tcLog, [who |-> "client", what |-> "read",
                             msg |-> Head(toCli)])
  /\ UNCHANGED <<requestCounter, issued, cliReq, attempt, sentLog, sendFailed,
                 heard, waitOutcome, toSrv, wkOut>>
  /\ UNCHANGED srvVars
  /\ UNCHANGED netVars
  /\ UNCHANGED <<frameVars, codecVars, callVars>>

\* readTcpMessage of the client fails: the worker closed the connection
TcpClientReadFail ==
  /\ cliPc = "read"
  /\ toCli = <<>>
  /\ tcp[1].state = "closed"
  /\ cliPc' = "stopped"
  /\ UNCHANGED <<requestCounter, issued, cliReq, attempt, sentLog, sendFailed,
                 heard, waitOutcome, cliResult, cliState>>
  /\ UNCHANGED connVars
  /\ UNCHANGED srvVars
  /\ UNCHANGED netVars
  /\ UNCHANGED <<frameVars, codecVars, callVars>>

\* the first half of a pass of the worker's loop: readTcpMessage returns
\* the next message of the stream and the request is dispatched; a header
\* that does not decode ends the worker
TcpWorkerRead ==
  LET closedConn == [state |-> "closed", context |-> NewContext]
      dispatched(m, r) ==
        /\ tcp' = [tcp EXCEPT ![1] = [state |-> "open",
                                      context |-> r.context]]
        /\ wkOut' = <<[header |-> r.header, payload |-> r.payload,
                       exit |-> r.exit, request |-> m]>>
        /\ tcLog' = Append(tcLog, [who |-> "worker", what |-> "read",
                                   msg |-> m])
      got(m, decoded) ==
        IF ~decoded.ok
        THEN /\ tcp' = [tcp EXCEPT ![1] = closedConn]
             /\ UNCHANGED <<wkOut, tcLog>>
        ELSE dispatched(m, handleTcpClient(tcp[1].context, decoded.header,
                                           m.payload))
  IN
  /\ transport = "tcp"
  /\ srvPc # "killed"
  /\ tcp[1].state = "open"
  /\ wkOut = <<>>
  /\ toSrv # <<>>
  /\ got(Head(toSrv), deserializeHeader(Head(toSrv).headerBuf))
  /\ toSrv' = Tail(toSrv)
  /\ UNCHANGED <<transport, clients, srvPc, srvReq, udpOut, accepted,
                 lastEvent, toCli>>
  /\ UNCHANGED netVars
  /\ UNCHANGED cliVars
  /\ UNCHANGED <<frameVars, codecVars, callVars>>

\* the second half: sendTcpMessage writes the response; after Exit, or
\* when a send reports an error, the worker closes the socket; a send to a
\* client that has closed its socket can raise SIGPIPE
TcpWorkerWrite(sendResult) ==
  LET closedConn == [state |-> "closed", context |-> NewContext]
      written(out, response) ==
        /\ toCli' = IF sendResult = "ok" /\ cliPc # "stopped"
                    THEN Append(toCli, wireOf(response)) ELSE toCli
        /\ tcLog' = IF sendResult = "ok"
                    THEN Append(tcLog, [who |-> "worker", what |-> "wrote",
                                        msg |-> wireOf(response),
                                        request |-> out.request])
                    ELSE tcLog
        /\ tcp' = IF out.exit \/ sendResult # "ok"
                  THEN [tcp EXCEPT ![1] = closedConn] ELSE tcp
        /\ srvPc' = IF sendResult = "sigpipe" THEN "killed" ELSE srvPc
  IN
  /\ transport = "tcp"
  /\ srvPc # "killed"
  /\ tcp[1].state = "open"
  /\ wkOut # <<>>
  /\ sendResult = "sigpipe" => cliPc = "stopped"
  /\ written(wkOut[1], sendTcpMessage(wkOut[1].header, wkOut[1].payload))
  /\ wkOut' = <<>>
  /\ UNCHANGED <<transport, clients, srvReq, udpOut, accepted, lastEvent,
                 toSrv>>
  /\ UNCHANGED netVars
  /\ UNCHANGED cliVars
  /\ UNCHANGED <<frameVars, codecVars, callVars>>

\* ------------------------------------------------------------------------
\* A TCP stream under partial I/O (sendAll, recvExact, readTcpMessage)
\* ------------------------------------------------------------------------
\* the messages put on a stream: requests of the three kinds, a header
\* whose payloadSize is the ceiling and one whose payloadSize is above it,
\* both without payload bytes of their own
FrameMessages ==
  {[header |-> requestHeaderOf(req), payload |-> req.payload] :
     req \in {[command |-> CmdExit, payload |-> <<>>],
              [command |-> CmdPathQuery,
               payload |-> serializePathQuery([source |-> 0, target |-> 3])],
              [command |-> CmdUploadGraph,
               payload |-> buildUploadPayload(Cycle6)]}}
  \cup {[header |-> [command |-> CmdHelp, status |-> StOk,
                     requestId |-> TestRequestId, payloadSize |-> size,
                     reserved |-> 0],
         payload |-> <<>>] : size \in {kMaxPayloadSize, kMaxPayloadSize + 1}}

\* the sequences of one to MaxFrames messages
FrameStreams ==
  UNION {[1..n -> FrameMessages] : n \in 1..MaxFrames}

\* the bytes sendTcpMessage writes for the messages, one after the other
RECURSIVE streamOf(_)
streamOf(source) ==
  IF source = <<>> THEN <<>>
  ELSE serializeHeader(Head(source).header) \o Head(source).payload
       \o streamOf(Tail(source))

\* the lengths of the buffers deserializeHeader is applied to on its own
ProbeLengths == {kHeaderSize - 1, kHeaderSize, kHeaderSize + 1}

NoProbe == [buffer |-> <<>>, ok |-> FALSE, done |-> FALSE]

InitFrame(source) ==
  /\ frSource = source
  /\ frArrived = 0
  /\ frOffset = 0
  /\ frPc = "header"
  /\ frBuf = <<>>
  /\ frHeader = NoHeader
  /\ frRead = <<>>
  /\ frProbe = NoProbe

\* the size of the chunk a call moves: n bytes, or with n = 0 all it can
chunkOf(n, room) == IF n = 0 THEN room ELSE n

\* the smaller of two numbers
min(a, b) == IF a < b THEN a ELSE b

\* a loop that stops after the first chunk
recvExactDoneFirstChunk(received, size) == received > 0

\* the loop condition of recvExact, negated: all size bytes are there
recvExactDone(received, size) == ~(received < size)

\* one send call of sendAll's loop takes a chunk of the bytes not yet
\* written
FrSend(n) ==
  /\ frSource # <<>>
  /\ frArrived < Len(streamOf(frSource))
  /\ n <= Len(streamOf(frSource)) - frArrived
  /\ frArrived' = frArrived + chunkOf(n, Len(streamOf(frSource)) - frArrived)
  /\ UNCHANGED <<frSource, frOffset, frPc, frBuf, frHeader, frRead, frProbe>>
  /\ UNCHANGED <<srvVars, netVars, cliVars, connVars, codecVars,
                 callVars>>

\* one recv call of recvExact's loop returns a chunk of the bytes that
\* have arrived, at most as many as the buffer still lacks; when the
\* buffer is full recvExact returns and readTcpMessage goes on: after the
\* header it decodes it and returns false when that fails, sizes the
\* payload and reads it unless it is empty; after the payload it returns
\* the message and is called again
FrRecv(n) ==
  LET want == IF frPc = "header" THEN kHeaderSize ELSE frHeader.payloadSize
      room == min(want - Len(frBuf), frArrived - frOffset)
      returned(header, payload, end) ==
        /\ frRead' = Append(frRead, [header |-> header, payload |-> payload,
                                     end |-> end])
        /\ frPc' = "header"
        /\ frHeader' = NoHeader
      headerRead(decoded, end) ==
        IF ~decoded.ok
        THEN /\ frPc' = "badHeader"
             /\ UNCHANGED <<frHeader, frRead>>
        ELSE IF decoded.header.payloadSize = 0
        THEN returned(decoded.header, <<>>, end)
        ELSE /\ frPc' = "payload"
             /\ frHeader' = decoded.header
             /\ UNCHANGED frRead
      received(buffer, end) ==
        /\ frOffset' = end
        /\ IF ~recvExactDone(Len(buffer), want)
           THEN /\ frBuf' = buffer
                /\ UNCHANGED <<frPc, frHeader, frRead>>
           ELSE /\ frBuf' = <<>>
                /\ IF frPc = "header"
                   THEN headerRead(deserializeHeader(buffer), end)
                   ELSE returned(frHeader, buffer, end)
      take(k) ==
        received(frBuf \o SubSeq(streamOf(frSource), frOffset + 1,
                                 frOffset + k), frOffset + k)
  IN
  /\ frPc \in {"header", "payload"}
  /\ room > 0
  /\ n <= room
  /\ take(chunkOf(n, room))
  /\ UNCHANGED <<frSource, frArrived, frProbe>>
  /\ UNCHANGED <<srvVars, netVars, cliVars, connVars, codecVars,
                 callVars>>

\* a recv call returns 0: the sender has written everything and closed,
\* and every byte was read; recvExact and readTcpMessage return false
FrRecvEnd ==
  /\ frSource # <<>>
  /\ frPc \in {"header", "payload"}
  /\ frArrived = Len(streamOf(frSource))
  /\ frOffset = frArrived
  /\ frPc' = "closed"
  /\ UNCHANGED <<frSource, frArrived, frOffset, frBuf, frHeader, frRead,
                 frProbe>>
  /\ UNCHANGED <<srvVars, netVars, cliVars, connVars, codecVars,
                 callVars>>

\* the offset at which the k-th message of the stream begins
RECURSIVE startOf(_, _)
startOf(source, k) ==
  IF k = 1 THEN 0
  ELSE kHeaderSize + Len(Head(source).payload) + startOf(Tail(source), k - 1)

\* deserializeHeader applied to the n bytes of the stream at which its
\* k-th message begins, once the reader has come to its end
FrDecodeProbe(k, n) ==
  LET probed(buffer, decoded) ==
        frProbe' = [buffer |-> buffer, ok |-> decoded.ok, done |-> TRUE]
      probe(buffer) == probed(buffer, deserializeHeader(buffer))
      from(start) ==
        /\ start + n <= Len(streamOf(frSource))
        /\ probe(SubSeq(streamOf(frSource), start + 1, start + n))
  IN
  /\ frPc \in {"badHeader", "closed"}
  /\ k <= Len(frSource)
  /\ from(startOf(frSource, k))
  /\ UNCHANGED <<frSource, frArrived, frOffset, frPc, frBuf, frHeader, frRead>>
  /\ UNCHANGED <<srvVars, netVars, cliVars, connVars, codecVars,
                 callVars>>

\* ------------------------------------------------------------------------
\* The header codec on its own (serializeHeader, deserializeHeader)
\* ------------------------------------------------------------------------
\* the headers handed to serializeHeader: every command and status of the
\* protocol and values outside it, request ids and sizes around the byte
\* boundaries, sizes at and above the ceiling
CodecCommands == {0, CmdHelp, CmdUploadGraph, CmdPathQuery, CmdPathResult,
                  CmdError, CmdAck, CmdExit, 255}
CodecStatuses == {StOk, StInvalidRequest, StInternalError, StNotReady, 255}
CodecRequestIds == {0, 1, 255, 256, 65535}
CodecPayloadSizes == {0, 1, 255, 256, 65536, kMaxPayloadSize,
                      kMaxPayloadSize + 1}
CodecReserved == {0, 1, 16909060, 2147483647}

CodecHeaders ==
  [command : CodecCommands, status : CodecStatuses,
   requestId : CodecRequestIds, payloadSize : CodecPayloadSizes,
   reserved : CodecReserved]

InitCodec(header) ==
  /\ cdHeader = header
  /\ cdBytes = <<>>
  /\ cdDecoded = [ok |-> FALSE, header |-> NoHeader]
  /\ cdPc = "start"

\* serializeHeader is applied to the header
CdSerialize ==
  /\ cdPc = "start"
  /\ cdBytes' = serializeHeader(cdHeader)
  /\ cdPc' = "serialized"
  /\ UNCHANGED <<cdHeader, cdDecoded>>
  /\ UNCHANGED <<srvVars, netVars, cliVars, connVars, frameVars,
                 callVars>>

\* deserializeHeader is applied to the bytes
CdDeserialize ==
  /\ cdPc = "serialized"
  /\ cdDecoded' = deserializeHeader(cdBytes)
  /\ cdPc' = "deserialized"
  /\ UNCHANGED <<cdHeader, cdBytes>>
  /\ UNCHANGED <<srvVars, netVars, cliVars, connVars, frameVars,
                 callVars>>

\* ------------------------------------------------------------------------
\* The payload codecs on their own
\* ------------------------------------------------------------------------
\* UploadGraph payloads with as many weights as edgeCount says: those of
\* the test graphs, and payloads with counts and sizes at the ends of
\* their ranges (the size of the bit block is not this codec's concern)
UploadValues ==
  {[vertexCount |-> g.vertexCount, edgeCount |-> g.edgeCount,
    incidenceBits |-> packIncidenceMatrix(g.incidence),
    weights |-> g.weights] : g \in TestGraphs}
  \cup {[vertexCount |-> 0, edgeCount |-> 0, incidenceBits |-> <<>>,
         weights |-> <<>>],
        [vertexCount |-> 65535, edgeCount |-> 1, incidenceBits |-> <<255>>,
         weights |-> <<2147483647>>],
        [vertexCount |-> 1, edgeCount |-> 2, incidenceBits |-> <<>>,
         weights |-> <<0, 16909060>>],
        [vertexCount |-> 256, edgeCount |-> 0, incidenceBits |-> <<1, 2, 3>>,
         weights |-> <<>>]}

QueryValues ==
  [source : {0, 1, 255, 256, 65535}, target : {0, 1, 255, 256, 65535}]

ResultValues ==
  [distance : {0, 3, 16909060, 2147483647},
   path : {<<>>, <<0>>, <<0, 1, 2, 3>>, <<65535, 256, 255>>}]

\* strings: empty, one byte, texts of the server, and 255 to 257 bytes
StringValues ==
  {<<>>, <<65>>, kMsgGoodbye, kHelpText}
  \cup {[i \in 1..n |-> i % 256] : n \in {255, 256, 257}}

\* the shapes of the matrices that are enumerated in full
MatrixShapes == {<<1, 1>>, <<1, 9>>, <<2, 4>>, <<3, 3>>}

\* matrices with their dimensions: every 0/1 matrix of the shapes above,
\* the matrices of the test graphs, and matrices with no row or no column
MatrixValues ==
  UNION {{[vertexCount |-> s[1], edgeCount |-> s[2], matrix |-> m] :
            m \in [1..s[1] -> [1..s[2] -> {0, 1}]]} : s \in MatrixShapes}
  \cup {[vertexCount |-> g.vertexCount, edgeCount |-> g.edgeCount,
         matrix |-> g.incidence] : g \in TestGraphs}
  \cup {[vertexCount |-> 0, edgeCount |-> 3, matrix |-> <<>>],
        [vertexCount |-> 2, edgeCount |-> 0, matrix |-> <<<<>>, <<>>>>]}

\* the bytes put behind an encoding
ExtraBytes == {0, 255}

NoArg == [kind |-> "none", value |-> <<>>]

InitCall(arg) ==
  /\ fnArg = arg
  /\ fnBytes = <<>>
  /\ fnShape = "whole"
  /\ fnResult = [ok |-> FALSE]
  /\ fnPc = "start"

\* the serializer of the value's type
serializeArg(arg) ==
  CASE arg.kind = "upload" -> serializeUploadGraph(arg.value)
    [] arg.kind = "query" -> serializePathQuery(arg.value)
    [] arg.kind = "result" -> serializePathResult(arg.value)
    [] arg.kind = "string" -> serializeString(arg.value)
    [] arg.kind = "matrix" -> packIncidenceMatrix(arg.value.matrix)

\* the deserializer of the value's type; unpackIncidenceMatrix is given
\* the dimensions of the matrix
deserializeArg(arg, bytes) ==
  CASE arg.kind = "upload" -> deserializeUploadGraph(bytes)
    [] arg.kind = "query" -> deserializePathQuery(bytes)
    [] arg.kind = "result" -> deserializePathResult(bytes)
    [] arg.kind = "string" -> deserializeString(bytes)
    [] arg.kind = "matrix" ->
         unpackIncidenceMatrix(arg.value.vertexCount, arg.value.edgeCount,
                               bytes)

PayloadSerialize ==
  /\ fnPc = "start"
  /\ fnArg.kind # "none"
  /\ fnBytes' = serializeArg(fnArg)
  /\ fnPc' = "serialized"
  /\ UNCHANGED <<fnArg, fnShape, fnResult>>
  /\ UNCHANGED <<srvVars, netVars, cliVars, connVars, frameVars, codecVars>>

\* some of the first bytes of the encoding are kept, not all
PayloadCut ==
  /\ fnPc = "serialized"
  /\ fnShape = "whole"
  /\ \E k \in 0..(Len(fnBytes) - 1) : fnBytes' = SubSeq(fnBytes, 1, k)
  /\ fnShape' = "cut"
  /\ UNCHANGED <<fnArg, fnResult, fnPc>>
  /\ UNCHANGED <<srvVars, netVars, cliVars, connVars, frameVars, codecVars>>

\* a byte is put behind the encoding
PayloadExtend(b) ==
  /\ fnPc = "serialized"
  /\ fnShape = "whole"
  /\ fnBytes' = Append(fnBytes, b)
  /\ fnShape' = "extended"
  /\ UNCHANGED <<fnArg, fnResult, fnPc>>
  /\ UNCHANGED <<srvVars, netVars, cliVars, connVars, frameVars, codecVars>>

PayloadDeserialize ==
  /\ fnPc = "serialized"
  /\ fnResult' = deserializeArg(fnArg, fnBytes)
  /\ fnPc' = "done"
  /\ UNCHANGED <<fnArg, fnBytes, fnShape>>
  /\ UNCHANGED <<srvVars, netVars, cliVars, connVars, frameVars, codecVars>>
\* ------------------------------------------------------------------------
\* The graph engine on its own
\* ------------------------------------------------------------------------
\* Cycle6 with one weight equal to the infinity sentinel
SentinelEdge ==
  [Cycle6 EXCEPT !.weights = <<1, 1, kInfinity, 1, 1, 1>>]

\* Cycle6 with weights so large that three of them reach the sentinel
HeavyPath ==
  [Cycle6 EXCEPT !.weights = [e \in 1..6 |-> 400000000]]

\* different weights, a detour cheaper than the direct edge, two edges
\* between the same vertices, a self-loop and a weight of zero
Weighted ==
  GraphOf(6, <<<<0, 1>>, <<1, 2>>, <<0, 2>>, <<2, 3>>, <<3, 4>>, <<4, 5>>,
             <<5, 0>>, <<1, 3>>, <<1, 3>>, <<4, 4>>, <<2, 5>>>>,
          <<4, 1, 2, 5, 0, 1, 10, 9, 3, 0, 6>>)

\* six vertices and five edges
FiveEdges ==
  GraphOf(6, <<<<0, 1>>, <<1, 2>>, <<2, 3>>, <<3, 4>>, <<4, 5>>>>,
          <<1, 1, 1, 1, 1>>)

\* a weight list shorter and one longer than edgeCount
MissingWeight == [Cycle6 EXCEPT !.weights = <<1, 1, 1, 1, 1>>]
ExtraWeight == [Cycle6 EXCEPT !.weights = <<1, 1, 1, 1, 1, 1, 1>>]

\* a matrix with a cell that is neither 0 nor 1
TwoInCell == [Cycle6 EXCEPT !.incidence[1][1] = 2]

\* a matrix without its last row, and one whose last row lacks a cell
MissingRow ==
  [Cycle6 EXCEPT !.incidence = SubSeq(Cycle6.incidence, 1, 5)]
ShortRow ==
  [Cycle6 EXCEPT !.incidence[6] = SubSeq(Cycle6.incidence[6], 1, 5)]

\* an edge with no endpoint
EmptyColumn ==
  GraphOf(6, <<<<0, 1>>, <<1, 2>>, <<2, 3>>, <<>>, <<4, 5>>, <<5, 0>>>>,
          <<1, 1, 1, 1, 1, 1>>)

\* the graphs given to the engine
GraphValues ==
  TestGraphs
  \cup {EmptyGraph, SentinelEdge, HeavyPath, Weighted,
        FiveEdges, MissingWeight, ExtraWeight, TwoInCell, MissingRow,
        ShortRow, EmptyColumn}

\* the vertices asked for: those of a six-vertex graph and one beyond
VertexValues == 0..6

\* validateGraph applied to the graph
GraphValidate ==
  /\ fnPc = "start"
  /\ fnArg.kind = "graph"
  /\ fnResult' = validateGraph(fnArg.value.graph)
  /\ fnPc' = "validated"
  /\ UNCHANGED <<fnArg, fnBytes, fnShape>>
  /\ UNCHANGED <<srvVars, netVars, cliVars, connVars, frameVars, codecVars>>

\* the outcomes of a read of parent outside the array: a fault, or one of
\* the 16-bit values the read may find: the end marker, a vertex, the
\* least value
OutsideReads ==
  {FaultingRead} \cup {ReturningRead(x) : x \in {-1, 0, 3, -32768}}

\* bellmanFord applied to the graph, the source and the target, with any
\* outcome of a read outside parent; the result of the validation is kept
\* beside its result
GraphBellmanFord ==
  /\ fnPc = "validated"
  /\ fnArg.kind = "graph"
  /\ \E read \in OutsideReads :
       fnResult' = [ok |-> fnResult.ok, message |-> fnResult.message,
                    computation |-> bellmanFordReading(fnArg.value.graph,
                                                       fnArg.value.source,
                                                       fnArg.value.target,
                                                       read)]
  /\ fnPc' = "done"
  /\ UNCHANGED <<fnArg, fnBytes, fnShape>>
  /\ UNCHANGED <<srvVars, netVars, cliVars, connVars, frameVars, codecVars>>

\* ------------------------------------------------------------------------
\* The request counter of the UDP client over a long session
\* ------------------------------------------------------------------------
\* the requests of the long session: a query and "exit"
IdsRequests ==
  {[command |-> CmdPathQuery,
    payload |-> serializePathQuery([source |-> 0, target |-> 3])],
   [command |-> CmdExit, payload |-> <<>>]}

\* a command of runUdpClient that sends a request: the header takes
\* nextRequestId() and sendUdpWithAck is called
IdsRequest(req) ==
  /\ cliPc = "prompt"
  /\ issued < MaxIds
  /\ callSendUdpWithAck(
       [command |-> req.command, status |-> StOk,
        requestId |-> requestCounter, payloadSize |-> Len(req.payload),
        reserved |-> 0], req.payload, EmptyGraph)
  /\ UNCHANGED <<srvVars, netVars, restVars>>

\* a pass of the loop of sendUdpWithAck that sends the packet and hears
\* nothing in time
IdsTransmit ==
  /\ cliPc = "send"
  /\ attemptAllowed(attempt)
  /\ sentLog' = Append(sentLog, cliReq.packet)
  /\ attempt' = attempt + 1
  /\ UNCHANGED <<cliPc, requestCounter, issued, cliReq, sendFailed, heard,
                 waitOutcome, cliResult, cliState>>
  /\ UNCHANGED <<srvVars, netVars, restVars>>

\* sendUdpWithAck returns: with the response to a packet it sent, or with
\* nothing after its last pass; runUdpClient goes on after a response and
\* stops after "exit" and after a call without one
IdsReturn(answered) ==
  /\ cliPc = "send"
  /\ IF answered THEN sentLog # <<>> ELSE ~attemptAllowed(attempt)
  /\ cliPc' = IF cliReq.header.command = CmdExit \/ ~answered
              THEN "stopped" ELSE "prompt"
  /\ UNCHANGED <<requestCounter, issued, cliReq, attempt, sentLog,
                 sendFailed, heard, waitOutcome, cliResult, cliState>>
  /\ UNCHANGED <<srvVars, netVars, restVars>>


\* ------------------------------------------------------------------------
\* Specifications
\* ------------------------------------------------------------------------
vars == <<transport, tcp, clients, srvPc, srvReq, udpOut, c2s, s2c, accepted,
          lastEvent, dups, injected, cliPc, requestCounter, issued, cliReq,
          attempt, sentLog, sendFailed, heard, waitOutcome, cliResult,
          cliState, toSrv, toCli, wkOut, tcLog, frSource, frArrived,
          frOffset, frPc, frBuf, frHeader, frRead, frProbe, cdHeader,
          cdBytes, cdDecoded, cdPc, fnArg, fnBytes, fnShape, fnResult,
          fnPc>>

\* the server on either transport, with peers that send it any request
Init ==
  /\ InitServer
  /\ InitClient
  /\ InitConn
  /\ InitFrame(<<>>)
  /\ InitCodec(NoHeader)
  /\ InitCall(NoArg)

Next ==
  \/ \E c \in Peers : TcpAccept(c)
  \/ \E c \in Peers : \E m \in TestTcpMessages :
       \E sendResult \in SendResults :
         TcpWorkerStep(c, m.headerBuf, m.payload, sendResult)
  \/ \E c \in Peers : TcpReadFail(c)
  \/ \E d \in BagToSet(c2s) : UdpServerRecv(d)
  \/ UdpServerDispatch
  \/ \E i \in Peers : \E bytes \in TestDatagrams : UdpPeerSend(i, bytes)
  \/ \E d \in BagToSet(s2c) : NetLoseReply(d)

Spec == Init /\ [][Next]_vars

\* the UDP client, the UDP server and the network between them: the
\* network hands over the datagrams in flight in any order, a datagram it
\* never hands over is a lost one, and it may deliver a reply twice
InitUdp ==
  /\ InitServer
  /\ transport = "udp"
  /\ InitClient
  /\ InitConn
  /\ InitFrame(<<>>)
  /\ InitCodec(NoHeader)
  /\ InitCall(NoArg)

ClientStep ==
  \/ \E ok \in BOOLEAN : ClientSend(ok)
  \/ ClientTimeout
  \/ \E d \in BagToSet(s2c) : ClientRecvAck(d)
  \/ \E d \in BagToSet(s2c) : ClientRecvResponse(d)

NextUdp ==
  \/ \E graphDef \in ClientGraphs : ClientUpload(graphDef)
  \/ \E q \in ClientQueries : ClientQuery(q[1], q[2])
  \/ ClientExit
  \/ ClientStep
  \/ \E d \in BagToSet(c2s) : UdpServerRecv(d)
  \/ UdpServerDispatch
  \/ \E d \in BagToSet(s2c) : NetDuplicateReply(d)
  \/ \E bytes \in ForeignDatagrams : NetInject(bytes)

SpecUdp == InitUdp /\ [][NextUdp]_vars

\* select returns after at most kAckTimeoutSeconds and sendto does not
\* block, so a step of a running sendUdpWithAck call is eventually taken
SpecUdpFair == SpecUdp /\ WF_vars(ClientStep)

\* the TCP client, its connection and the worker that serves it
InitTcp ==
  /\ InitServer
  /\ transport = "tcp"
  /\ InitClient
  /\ InitConn
  /\ InitFrame(<<>>)
  /\ InitCodec(NoHeader)
  /\ InitCall(NoArg)

NextTcp ==
  \/ \E graphDef \in ClientGraphs : \E sendOk \in BOOLEAN :
       TcpClientUpload(graphDef, sendOk)
  \/ \E q \in ClientQueries : \E sendOk \in BOOLEAN :
       TcpClientQuery(q[1], q[2], sendOk)
  \/ \E sendOk \in BOOLEAN : TcpClientExit(sendOk)
  \/ TcpClientRead
  \/ TcpClientReadFail
  \/ TcpAccept(1)
  \/ TcpWorkerRead
  \/ \E sendResult \in SendResults : TcpWorkerWrite(sendResult)
  \/ TcpReadFail(1)

SpecTcp == InitTcp /\ [][NextTcp]_vars

\* a stream with the bytes of some messages on it, a sender that passes
\* them on in chunks and a reader that calls readTcpMessage until it fails
InitFraming ==
  /\ InitServer
  /\ transport = "tcp"
  /\ InitClient
  /\ InitConn
  /\ \E source \in FrameStreams : InitFrame(source)
  /\ InitCodec(NoHeader)
  /\ InitCall(NoArg)

NextFraming ==
  \/ \E n \in 0..MaxChunk : FrSend(n)
  \/ \E n \in 0..MaxChunk : FrRecv(n)
  \/ FrRecvEnd
  \/ \E k \in 1..MaxFrames : \E n \in ProbeLengths : FrDecodeProbe(k, n)

SpecFraming == InitFraming /\ [][NextFraming]_vars

\* the header codec applied to one header
InitCodecRun ==
  /\ InitServer
  /\ transport = "tcp"
  /\ InitClient
  /\ InitConn
  /\ InitFrame(<<>>)
  /\ \E header \in CodecHeaders : InitCodec(header)
  /\ InitCall(NoArg)

NextCodec ==
  \/ CdSerialize
  \/ CdDeserialize

SpecCodec == InitCodecRun /\ [][NextCodec]_vars

\* the payload codecs applied to one value: serialized, the bytes left
\* whole, cut short or extended, and deserialized
InitPayload ==
  /\ InitServer
  /\ transport = "tcp"
  /\ InitClient
  /\ InitConn
  /\ InitFrame(<<>>)
  /\ InitCodec(NoHeader)
  /\ \/ \E v \in UploadValues : InitCall([kind |-> "upload", value |-> v])
     \/ \E v \in QueryValues : InitCall([kind |-> "query", value |-> v])
     \/ \E v \in ResultValues : InitCall([kind |-> "result", value |-> v])
     \/ \E v \in StringValues : InitCall([kind |-> "string", value |-> v])
     \/ \E v \in MatrixValues : InitCall([kind |-> "matrix", value |-> v])

NextPayload ==
  \/ PayloadSerialize
  \/ PayloadCut
  \/ \E b \in ExtraBytes : PayloadExtend(b)
  \/ PayloadDeserialize

SpecPayload == InitPayload /\ [][NextPayload]_vars

\* the graph engine applied to one graph and one pair of vertices
InitGraph ==
  /\ InitServer
  /\ transport = "tcp"
  /\ InitClient
  /\ InitConn
  /\ InitFrame(<<>>)
  /\ InitCodec(NoHeader)
  /\ \E g \in GraphValues : \E s \in VertexValues : \E t \in VertexValues :
       InitCall([kind |-> "graph",
                 value |-> [graph |-> g, source |-> s, target |-> t]])

NextGraph ==
  \/ GraphValidate
  \/ GraphBellmanFord

SpecGraph == InitGraph /\ [][NextGraph]_vars

\* one long session of the UDP client in which every call of sendUdpWithAck
\* runs to its end
InitIds == InitUdp

NextIds ==
  \/ \E req \in IdsRequests : IdsRequest(req)
  \/ IdsTransmit
  \/ \E answered \in BOOLEAN : IdsReturn(answered)

SpecIds == InitIds /\ [][NextIds]_vars

\* ------------------------------------------------------------------------
\* Properties of the UDP client (checked under SpecUdp and SpecUdpFair)
\* ------------------------------------------------------------------------
\* a sendUdpWithAck call is running
InCall == cliPc \in {"send", "wait1", "wait2"}

\* the last sendUdpWithAck call has returned
Returned == cliPc \in {"prompt", "stopped"} /\ issued > 0

\* the sendto calls of the current sendUdpWithAck call
sendAttempts == Len(sentLog) + (IF sendFailed THEN 1 ELSE 0)

\* how a wait ends that read a datagram with another id, a datagram
\* shorter than a header or a datagram with an undecodable header
DiscardOutcomes == {"foreignId", "short", "badHeader"}

\* C1: what sendUdpWithAck returns as the answer to the request with
\* requestId k has a header with requestId k and a command other than Ack
C1_AnswerMatchesRequest ==
  (Returned /\ cliResult.some) =>
    /\ cliResult.header.requestId = cliReq.header.requestId
    /\ cliResult.header.command # CmdAck

\* C2 as stated: a call that read no datagram of its request made exactly
\* kAckRetries send attempts and returned no response
C2_LossPathThreeAttempts ==
  (Returned /\ ~heard) =>
    /\ sendAttempts = kAckRetries
    /\ ~cliResult.some

\* C2: a call that read no datagram of its request returned no response,
\* after exactly kAckRetries transmissions when every sendto succeeded, and
\* after at most kAckRetries send attempts when the last sendto reported an
\* error
C2_LossPath ==
  (Returned /\ ~heard) =>
    /\ ~cliResult.some
    /\ sendAttempts <= kAckRetries
    /\ ~sendFailed => Len(sentLog) = kAckRetries

\* a call that heard nothing of its request gave up after three
\* transmissions
C2_Witness ==
  /\ Returned
  /\ ~heard
  /\ ~sendFailed
  /\ Len(sentLog) = kAckRetries
  /\ cliResult = NoResult

\* every transmission of the current call is the packet of its request
TransmissionsIdentical ==
  \A k \in 1..Len(sentLog) :
    /\ sentLog[k] = sentLog[1]
    /\ sentLog[k] = serializeHeader(cliReq.header) \o cliReq.payload

\* C3 as stated: a call transmits its request at least once and at most
\* kAckRetries times, every transmission byte-identical to the first, and
\* the call terminates
C3_TransmitsOnceToThrice ==
  /\ [](Len(sentLog) <= kAckRetries /\ TransmissionsIdentical)
  /\ [](Returned => Len(sentLog) >= 1)
  /\ (InCall ~> Returned)

\* C3: a call transmits its request at most kAckRetries times, every
\* transmission byte-identical to the first, at least once unless its
\* first sendto reported an error, and the call terminates with a response
\* or with the failure result
C3_TransmitsAtMostThrice ==
  /\ [](Len(sentLog) <= kAckRetries /\ TransmissionsIdentical)
  /\ [](Returned => (Len(sentLog) >= 1 \/ sendFailed))
  /\ [](Returned => (cliResult.some \/ cliResult = NoResult))
  /\ (InCall ~> Returned)

\* a call returned a response after its third transmission
C3_Witness ==
  /\ Returned
  /\ Len(sentLog) = kAckRetries
  /\ cliResult.some

\* C4: a datagram that does not qualify leaves the client waiting, and the
\* client retransmits only after a wait that expired
C4_DiscardKeepsWaiting ==
  /\ waitOutcome \in DiscardOutcomes => cliPc \in {"wait1", "wait2"}
  /\ (cliPc = "send" /\ attempt > 1) => waitOutcome = "timeout"

\* ------------------------------------------------------------------------
\* Properties of the server (checked under Spec)
\* ------------------------------------------------------------------------
\* the last step handled a request
Handled == lastEvent.kind \in {"tcp", "udp"}

\* the session of peer i as its next request will find it
sessionOf(i) ==
  IF transport = "tcp" THEN tcp[i].context ELSE udpContext(clients, i)

\* the session of peer i was not torn down with its connection
sessionLive(i) == transport = "udp" \/ tcp[i].state = "open"

\* command, status and request id in the first bytes of a response
responseCommand(response) == response[1]
responseStatus(response) == response[2]
responseRequestId(response) == response[3] * 256 + response[4]

\* the header at the front of a datagram
headerOf(bytes) == deserializeHeader(SubSeq(bytes, 1, kHeaderSize))

\* out is the Ack for the datagram d
IsAckFor(out, d) ==
  /\ out.addr = d.addr
  /\ Len(out.bytes) = kHeaderSize
  /\ headerOf(out.bytes).ok
  /\ headerOf(out.bytes).header.command = CmdAck
  /\ headerOf(out.bytes).header.requestId = headerOf(d.bytes).header.requestId

\* out is a response to the request req
IsResponseFor(out, req) ==
  /\ out.addr = req.addr
  /\ Len(out.bytes) >= kHeaderSize
  /\ responseCommand(out.bytes) # CmdAck
  /\ responseRequestId(out.bytes) = req.header.requestId

\* C5: for a received datagram of at least kHeaderSize bytes whose header
\* decodes the UDP server sends the Ack with the datagram's request id to
\* its sender and has not touched the session table; the step that follows
\* sends one response with the same id to the same address
C5_AckBeforeResponse ==
  [][/\ \A d \in BagToSet(c2s) :
          (/\ UdpServerRecv(d)
           /\ Len(d.bytes) >= kHeaderSize
           /\ headerOf(d.bytes).ok)
          => /\ srvPc' = "acked"
             /\ clients' = clients
             /\ Len(udpOut') = 1
             /\ IsAckFor(udpOut'[1], d)
             /\ s2c' = BagAdd(s2c, udpOut'[1])
     /\ UdpServerDispatch
          => /\ Len(udpOut) = 1
             /\ udpOut' = Append(udpOut, udpOut'[2])
             /\ IsResponseFor(udpOut'[2], srvReq)
             /\ s2c' = BagAdd(s2c, udpOut'[2])
             /\ srvPc' = "recv"]_vars

\* the Ack and then an Error response were sent for a datagram
C5_Witness ==
  /\ lastEvent.kind = "udp"
  /\ Len(udpOut) = 2
  /\ responseCommand(udpOut[1].bytes) = CmdAck
  /\ responseCommand(udpOut[2].bytes) = CmdError

\* C6: a well-formed PathQuery for a session without a graph is answered
\* Error/NotReady and the session still has no graph
C6_QueryWithoutGraphNotReady ==
  (/\ Handled
   /\ lastEvent.header.command = CmdPathQuery
   /\ deserializePathQuery(lastEvent.payload).ok
   /\ ~lastEvent.before.hasGraph)
  => /\ responseCommand(lastEvent.response) = CmdError
     /\ responseStatus(lastEvent.response) = StNotReady
     /\ ~sessionOf(lastEvent.peer).hasGraph

\* the payload of an upload that does not decode or whose graph is invalid
IsInvalidUpload(payload) ==
  payload \in MalformedUploads \/ sourceGraph(payload) \in InvalidGraphs

\* the response carries a non-empty text
HasReason(response) ==
  /\ deserializeString(SubSeq(response, kHeaderSize + 1, Len(response))).ok
  /\ Len(response) > kHeaderSize + 2

\* C7: an UploadGraph that does not decode or does not validate is
\* answered Error/InvalidRequest with a reason and the session is left as
\* it was
C7_InvalidUploadRejected ==
  (/\ Handled
   /\ lastEvent.header.command = CmdUploadGraph
   /\ IsInvalidUpload(lastEvent.payload))
  => /\ responseCommand(lastEvent.response) = CmdError
     /\ responseStatus(lastEvent.response) = StInvalidRequest
     /\ HasReason(lastEvent.response)
     /\ sessionLive(lastEvent.peer)
          => sessionOf(lastEvent.peer) = lastEvent.before

\* a session with a graph kept it over the upload of a five-vertex graph
C7_Witness ==
  /\ Handled
  /\ lastEvent.header.command = CmdUploadGraph
  /\ sourceGraph(lastEvent.payload) = FiveVertices
  /\ lastEvent.before.hasGraph
  /\ sessionOf(lastEvent.peer) = lastEvent.before

C9_ReadOnlyRequests ==
  (/\ Handled
   /\ \/ lastEvent.header.command \in {CmdHelp, CmdPathQuery}
      \/ lastEvent.header.command
           \notin {CmdHelp, CmdUploadGraph, CmdPathQuery, CmdExit}
   /\ sessionLive(lastEvent.peer))
  => sessionOf(lastEvent.peer) = lastEvent.before

\* a query that found a path left the session's graph in place
C9_Witness ==
  /\ Handled
  /\ lastEvent.header.command = CmdPathQuery
  /\ responseCommand(lastEvent.response) = CmdPathResult
  /\ lastEvent.before.hasGraph
  /\ sessionOf(lastEvent.peer) = lastEvent.before

\* C10: Exit is answered Exit/Ok; on TCP the connection is then closed and
\* a closed connection handles nothing more; on UDP the sender's table
\* entry is gone, and a query from an address without an entry finds no
\* graph
C10_ExitDestroysSession ==
  /\ []((Handled /\ lastEvent.header.command = CmdExit)
        => /\ responseCommand(lastEvent.response) = CmdExit
           /\ responseStatus(lastEvent.response) = StOk
           /\ lastEvent.kind = "tcp"
                => tcp[lastEvent.peer].state = "closed"
           /\ lastEvent.kind = "udp"
                => addrToKey(PeerAddr(lastEvent.peer)) \notin DOMAIN clients)
  /\ []((/\ lastEvent.kind = "udp"
         /\ ~lastEvent.existed
         /\ lastEvent.header.command = CmdPathQuery)
        => responseCommand(lastEvent.response) = CmdError)
  /\ [][\A c \in Peers : tcp[c].state = "closed" => tcp'[c] = tcp[c]]_vars

\* an Exit was handled for a session that held a graph
C10_Witness ==
  /\ Handled
  /\ lastEvent.header.command = CmdExit
  /\ lastEvent.before.hasGraph
  /\ ~sessionOf(lastEvent.peer).hasGraph

\* ------------------------------------------------------------------------
\* Further properties of the server (checked under Spec)
\* ------------------------------------------------------------------------
\* C11: for the datagram the UDP server has acknowledged, handling it and
\* then handling it again leaves the table and gives the response that
\* handling it once does; after an Exit the sender's entry is absent both
\* times, and after an accepted upload the entry holds the uploaded graph
\* both times
C11_RedeliveryIdempotent ==
  LET key == addrToKey(srvReq.addr)
      settled(r) ==
        /\ srvReq.header.command = CmdExit => key \notin DOMAIN r.clients
        /\ (srvReq.header.command = CmdUploadGraph
            /\ r.header.command = CmdUploadGraph)
           => r.clients[key] = [graph |-> sourceGraph(srvReq.payload),
                                hasGraph |-> TRUE]
      same(once, again) ==
        /\ again.clients = once.clients
        /\ again.header = once.header
        /\ again.payload = once.payload
        /\ settled(once)
        /\ settled(again)
      redelivered(once) ==
        same(once, runUdpServer(once.clients, srvReq.addr, srvReq.header,
                                srvReq.payload))
  IN srvPc = "acked"
       => redelivered(runUdpServer(clients, srvReq.addr, srvReq.header,
                                   srvReq.payload))

\* an Exit is about to be handled for an address whose entry is absent
\* after an earlier Exit, and an upload for a session that holds that graph
C11_Witness ==
  /\ srvPc = "acked"
  /\ \/ /\ srvReq.header.command = CmdExit
        /\ addrToKey(srvReq.addr) \notin DOMAIN clients
        /\ clients # <<>>
     \/ /\ srvReq.header.command = CmdUploadGraph
        /\ addrToKey(srvReq.addr) \in DOMAIN clients
        /\ clients[addrToKey(srvReq.addr)]
             = [graph |-> sourceGraph(srvReq.payload), hasGraph |-> TRUE]

\* the request handled last failed to decode or to validate: an upload
\* that is not the encoding of a valid graph, or a PathQuery whose payload
\* is not a query
FailedToDecode ==
  \/ /\ lastEvent.header.command = CmdUploadGraph
     /\ IsInvalidUpload(lastEvent.payload)
  \/ /\ lastEvent.header.command = CmdPathQuery
     /\ ~deserializePathQuery(lastEvent.payload).ok

\* the bytes are one Error message for the request id: a header that
\* decodes, a payload of the announced size, and a string in the payload
IsWellFormedError(bytes, requestId) ==
  /\ Len(bytes) >= kHeaderSize
  /\ headerOf(bytes).ok
  /\ headerOf(bytes).header.command = CmdError
  /\ headerOf(bytes).header.requestId = requestId
  /\ headerOf(bytes).header.payloadSize = Len(bytes) - kHeaderSize
  /\ deserializeString(SubSeq(bytes, kHeaderSize + 1, Len(bytes))).ok

\* C12: when the request handled last failed to decode or to validate, the
\* response is a well-formed Error message for it, and, its send having
\* succeeded, the server is back at its receive, the session (the open TCP
\* connection, the UDP table entry) is there for the next request and
\* holds what it held before
C12_DecodeFailureKeepsSession ==
  (Handled /\ FailedToDecode)
  => /\ IsWellFormedError(lastEvent.response, lastEvent.header.requestId)
     /\ lastEvent.sent = "ok"
        => /\ srvPc = "recv"
           /\ sessionLive(lastEvent.peer)
           /\ transport = "udp"
                => addrToKey(PeerAddr(lastEvent.peer)) \in DOMAIN clients
           /\ sessionOf(lastEvent.peer) = lastEvent.before

\* a TCP session with a graph answered a PathQuery that does not decode
\* and is open with its graph
C12_Witness ==
  /\ lastEvent.kind = "tcp"
  /\ lastEvent.header.command = CmdPathQuery
  /\ ~deserializePathQuery(lastEvent.payload).ok
  /\ lastEvent.sent = "ok"
  /\ lastEvent.before.hasGraph
  /\ tcp[lastEvent.peer].state = "open"
  /\ tcp[lastEvent.peer].context = lastEvent.before

\* C13: a header that does not decode (twelve bytes whose payloadSize is
\* above the ceiling, or a datagram shorter than a header) is answered
\* with an Error/InvalidRequest message and the connection it came on
\* stays open
C13_MalformedHeaderAnswered ==
  lastEvent.kind \in {"tcpBadHeader", "udpSkipped"}
  => /\ Len(lastEvent.response) >= kHeaderSize
     /\ responseCommand(lastEvent.response) = CmdError
     /\ responseStatus(lastEvent.response) = StInvalidRequest
     /\ sessionLive(lastEvent.peer)

\* C14: a step in which the worker of connection c stops (its peer closed
\* the connection, a read came short, a send failed or met a closed peer)
\* leaves the server process running and every other connection as it was
C14_TransportErrorEndsOnlySession ==
  [][\A c \in Peers :
       (tcp[c].state = "open" /\ tcp'[c].state = "closed")
       => /\ srvPc' # "killed"
          /\ \A d \in Peers \ {c} : tcp'[d] = tcp[d]]_vars

\* C15: a step in which the server deals with what one peer sent (a
\* request, or a header that does not decode) leaves the session of every
\* other peer, and the connection it lives on, as they were
C15_SessionIsolation ==
  [][\A i \in Peers :
       (lastEvent'.kind # "none" /\ lastEvent'.peer # i)
       => /\ sessionOf(i)' = sessionOf(i)
          /\ tcp'[i].state = tcp[i].state]_vars

\* ------------------------------------------------------------------------
\* Properties of a TCP connection (checked under SpecTcp)
\* ------------------------------------------------------------------------
\* the events of one end of the connection, in order
eventsOf(who) == SelectSeq(tcLog, LAMBDA e : e.who = who)

\* the messages one end wrote, or read, in order
messagesOf(who, what) ==
  LET pick(events) == [k \in 1..Len(events) |-> events[k].msg]
  IN pick(SelectSeq(tcLog, LAMBDA e : e.who = who /\ e.what = what))

\* s is an initial part of t
IsPrefix(s, t) == Len(s) <= Len(t) /\ s = SubSeq(t, 1, Len(s))

\* C17: the worker reads a request and writes one response by turns, each
\* response being the one for the request read just before it, and a
\* response is pending exactly after a read; the client writes a request
\* and reads a response by turns; the requests arrive in the order they
\* were written, and so do the responses
C17_RequestResponseAlternation ==
  LET turns(events, first, second) ==
        \A k \in 1..Len(events) :
          events[k].what = IF k % 2 = 1 THEN first ELSE second
      answers(events) ==
        \A k \in 1..Len(events) :
          k % 2 = 0 => events[k].request = events[k - 1].msg
      pending(events) ==
        wkOut # <<>>
        => /\ Len(events) % 2 = 1
           /\ wkOut[1].request = events[Len(events)].msg
  IN
  /\ turns(eventsOf("worker"), "read", "wrote")
  /\ answers(eventsOf("worker"))
  /\ pending(eventsOf("worker"))
  /\ turns(eventsOf("client"), "wrote", "read")
  /\ IsPrefix(messagesOf("worker", "read"), messagesOf("client", "wrote"))
  /\ IsPrefix(messagesOf("client", "read"), messagesOf("worker", "wrote"))
  /\ Len(toSrv) <= 1
  /\ Len(toCli) <= 1

\* two requests were answered and the answers read, and a third request
\* is on its way
C17_Witness ==
  /\ Len(eventsOf("worker")) = 4
  /\ Len(eventsOf("client")) = 5
  /\ Len(toSrv) = 1
  /\ cliPc = "read"

\* ------------------------------------------------------------------------
\* Properties of the framing (checked under SpecFraming)
\* ------------------------------------------------------------------------
\* what the calls of readTcpMessage return, one after the other, when
\* every recv call finds all the bytes it asks for: the messages up to the
\* first header that does not decode or the first message that is not
\* complete
RECURSIVE readWhole(_, _)
readWhole(stream, offset) ==
  LET message(header, end) ==
        IF end > Len(stream) THEN <<>>
        ELSE <<[header |-> header,
                payload |-> SubSeq(stream, offset + kHeaderSize + 1, end),
                end |-> end]>> \o readWhole(stream, end)
      decodedTo(decoded) ==
        IF ~decoded.ok THEN <<>>
        ELSE message(decoded.header,
                     offset + kHeaderSize + decoded.header.payloadSize)
  IN IF offset + kHeaderSize > Len(stream) THEN <<>>
     ELSE decodedTo(deserializeHeader(
                      SubSeq(stream, offset + 1, offset + kHeaderSize)))

\* the offset at which the message after those returned begins
endOfRead == IF frRead = <<>> THEN 0 ELSE frRead[Len(frRead)].end

\* C18: however send and recv cut the stream, the messages readTcpMessage
\* has returned are the first ones it returns when the bytes come whole,
\* with the header and the payload their sender gave them; each ends
\* 12 + payloadSize bytes after the one before it; and the reader has
\* taken from the stream those messages and the part of the next one it
\* holds, no byte more
C18_FramingUnderPartialIO ==
  LET sameAsWhole(whole) ==
        /\ IsPrefix(frRead, whole)
        /\ frPc = "closed" => frRead = whole
  IN
  /\ sameAsWhole(readWhole(streamOf(frSource), 0))
  /\ \A k \in 1..Len(frRead) :
       /\ frRead[k].header = frSource[k].header
       /\ frRead[k].payload = frSource[k].payload
       /\ frRead[k].end = (IF k = 1 THEN 0 ELSE frRead[k - 1].end)
                          + kHeaderSize + frRead[k].header.payloadSize
  /\ frPc = "header" => frOffset = endOfRead + Len(frBuf)
  /\ frPc = "payload" => frOffset = endOfRead + kHeaderSize + Len(frBuf)

\* two messages with payloads were read, one after the other, and the
\* stream was read to its end
C18_Witness ==
  /\ Len(frRead) = 2
  /\ frRead[1].header.command = CmdUploadGraph
  /\ frRead[2].header.command = CmdPathQuery
  /\ frRead[2].payload # <<>>
  /\ frPc = "closed"

\* the payloadSize in the four bytes at offset 4 of a buffer, big-endian
payloadSizeIn(buffer) ==
  ((buffer[5] * 256 + buffer[6]) * 256 + buffer[7]) * 256 + buffer[8]

\* C19: deserializeHeader fails on a buffer exactly when the buffer is not
\* twelve bytes long or its payloadSize is above kMaxPayloadSize; and once
\* readTcpMessage has failed on a header the reader has taken the twelve
\* bytes of that header from the stream and nothing after them
C19_HeaderRejection ==
  /\ frProbe.done
     => (~frProbe.ok
         <=> \/ Len(frProbe.buffer) # kHeaderSize
             \/ payloadSizeIn(frProbe.buffer) > kMaxPayloadSize)
  /\ frPc = "badHeader"
     => /\ frOffset = endOfRead + kHeaderSize
        /\ payloadSizeIn(SubSeq(streamOf(frSource), endOfRead + 1,
                                endOfRead + kHeaderSize)) > kMaxPayloadSize
  /\ frPc = "payload" => frHeader.payloadSize <= kMaxPayloadSize

\* a header with payloadSize exactly kMaxPayloadSize decoded on its own,
\* and readTcpMessage failed on a header above the ceiling while bytes
\* that follow it had arrived
C19_Witness ==
  /\ frProbe.done
  /\ frProbe.ok
  /\ payloadSizeIn(frProbe.buffer) = kMaxPayloadSize
  /\ frPc = "badHeader"
  /\ frArrived > frOffset

\* ------------------------------------------------------------------------
\* Properties of the header codec (checked under SpecCodec)
\* ------------------------------------------------------------------------
\* the byte of weight 256^k in a number
byteOf(value, k) ==
  IF k = 0 THEN value % 256
  ELSE IF k = 1 THEN (value \div 256) % 256
  ELSE IF k = 2 THEN (value \div 65536) % 256
  ELSE (value \div 16777216) % 256

\* C20: serializeHeader gives twelve bytes: command, status, requestId,
\* payloadSize and reserved in this order, each with its most significant
\* byte first; for a header whose payloadSize is at most kMaxPayloadSize
\* deserializeHeader succeeds on them and gives the header back
C20_HeaderRoundTrip ==
  /\ cdPc # "start"
     => /\ Len(cdBytes) = kHeaderSize
        /\ cdBytes = <<cdHeader.command, cdHeader.status,
                       byteOf(cdHeader.requestId, 1),
                       byteOf(cdHeader.requestId, 0),
                       byteOf(cdHeader.payloadSize, 3),
                       byteOf(cdHeader.payloadSize, 2),
                       byteOf(cdHeader.payloadSize, 1),
                       byteOf(cdHeader.payloadSize, 0),
                       byteOf(cdHeader.reserved, 3),
                       byteOf(cdHeader.reserved, 2),
                       byteOf(cdHeader.reserved, 1),
                       byteOf(cdHeader.reserved, 0)>>
  /\ (cdPc = "deserialized" /\ cdHeader.payloadSize <= kMaxPayloadSize)
     => /\ cdDecoded.ok
        /\ cdDecoded.header = cdHeader

\* a header with a request id, the largest payloadSize and a reserved
\* value whose bytes all differ went through both functions
C20_Witness ==
  /\ cdPc = "deserialized"
  /\ cdHeader.requestId = 256
  /\ cdHeader.payloadSize = kMaxPayloadSize
  /\ cdHeader.reserved = 16909060
  /\ cdHeader.command = CmdExit
  /\ cdDecoded.ok

\* ------------------------------------------------------------------------
\* Properties of the payload codecs (checked under SpecPayload)
\* ------------------------------------------------------------------------
\* the value a deserializer returned
decodedValue(kind, result) ==
  CASE kind = "upload" -> result.payload
    [] kind = "query" -> result.payload
    [] kind = "result" -> result.payload
    [] kind = "string" -> result.text
    [] kind = "matrix" -> result.matrix

\* the four payload types of the protocol
PayloadKinds == {"upload", "query", "result", "string"}

\* C21: an UploadGraph payload with as many weights as its edgeCount, a
\* PathQuery, a PathResult and a string (with the lengths their length
\* fields can hold), serialized and then deserialized from the unchanged
\* bytes, decode with success to the value they were
C21_PayloadRoundTrip ==
  (fnPc = "done" /\ fnShape = "whole" /\ fnArg.kind \in PayloadKinds)
  => /\ fnResult.ok
     /\ decodedValue(fnArg.kind, fnResult) = fnArg.value

\* an UploadGraph payload of a graph whose weights differ, and with a
\* weight above 255, went through both functions
C21_Witness ==
  /\ fnPc = "done"
  /\ fnShape = "whole"
  /\ fnArg.kind = "upload"
  /\ fnArg.value.edgeCount = 6
  /\ \E k \in 1..6 : fnArg.value.weights[k] > 255
  /\ fnResult.ok

\* C22 as stated: for any vertexCount, any edgeCount and any 0/1 matrix of
\* that shape, unpacking the packed bits succeeds and gives the matrix back
C22_BitPackRoundTrip ==
  (fnPc = "done" /\ fnShape = "whole" /\ fnArg.kind = "matrix")
  => /\ fnResult.ok
     /\ fnResult.matrix = fnArg.value.matrix

\* C22: for a vertexCount and an edgeCount of at least 1 and any 0/1 matrix
\* of that shape, unpacking the packed bits succeeds and gives the matrix
\* back; with a dimension of 0 the packed block is empty and unpacking it
\* fails with the reason of an empty matrix
C22_BitPackRoundTripNonEmpty ==
  (fnPc = "done" /\ fnShape = "whole" /\ fnArg.kind = "matrix")
  => IF fnArg.value.vertexCount >= 1 /\ fnArg.value.edgeCount >= 1
     THEN /\ fnResult.ok
          /\ fnResult.matrix = fnArg.value.matrix
     ELSE /\ fnBytes = <<>>
          /\ ~fnResult.ok
          /\ fnResult.error = kMsgEmptyMatrix

\* a matrix whose bits do not fill the last byte and are not all equal was
\* packed into two bytes and unpacked
C22_Witness ==
  /\ fnPc = "done"
  /\ fnShape = "whole"
  /\ fnArg.kind = "matrix"
  /\ fnArg.value.vertexCount = 1
  /\ fnArg.value.edgeCount = 9
  /\ fnArg.value.matrix = <<<<1, 0, 0, 1, 0, 1, 1, 0, 1>>>>
  /\ Len(fnBytes) = 2
  /\ fnResult.ok

\* C23: for each of the four payload types, a buffer made of the first
\* bytes of an encoding but not all of them, and a buffer made of an
\* encoding and one more byte, are not decoded: the deserializer fails (and
\* every read of it stays inside the buffer)
C23_WrongLengthRejected ==
  (fnPc = "done" /\ fnShape \in {"cut", "extended"}
     /\ fnArg.kind \in PayloadKinds)
  => ~fnResult.ok

\* the encoding of a string of 256 bytes, followed by one more byte, was
\* given to deserializeString and refused
C23_Witness ==
  /\ fnPc = "done"
  /\ fnArg.kind = "string"
  /\ Len(fnArg.value) = 256
  /\ fnShape = "extended"
  /\ Len(fnBytes) = 259
  /\ ~fnResult.ok

\* ------------------------------------------------------------------------
\* Properties of the request handlers (checked under Spec)
\* ------------------------------------------------------------------------
\* the count fields an UploadGraph payload declares, as far as they are
\* there to be read
declaredCounts(payload) ==
  LET vc == readU16(payload, 0)
      ec == readU16(payload, 2)
      bs == readU32(payload, 4)
      wc == IF bs.ok THEN readU32(payload, 8 + bs.value)
            ELSE [ok |-> FALSE, value |-> 0, offset |-> 0]
  IN [fields |-> bs.ok, vertexCount |-> vc.value, edgeCount |-> ec.value,
      bitsSize |-> bs.value, weights |-> wc.ok, weightCount |-> wc.value]

\* the declared length of the bit block is not ceil(vertexCount * edgeCount
\* / 8)
bitsLengthMismatch(payload) ==
  /\ declaredCounts(payload).fields
  /\ declaredCounts(payload).bitsSize
       # (declaredCounts(payload).vertexCount
            * declaredCounts(payload).edgeCount + 7) \div 8

\* the declared weight count is not edgeCount
weightCountMismatch(payload) ==
  /\ declaredCounts(payload).weights
  /\ declaredCounts(payload).weightCount # declaredCounts(payload).edgeCount

\* bytes remain after the declared weights
bytesRemain(payload) ==
  /\ declaredCounts(payload).weights
  /\ Len(payload) > 8 + declaredCounts(payload).bitsSize + 4
                      + 4 * declaredCounts(payload).weightCount

\* C24: an UploadGraph payload whose declared bit-block length is not
\* ceil(vertexCount * edgeCount / 8), whose weight count is not edgeCount,
\* or that has bytes after its weights, is not decoded by
\* decodeGraphPayload, which gives a non-empty reason; the request is
\* answered Error/InvalidRequest with that reason as its text and the
\* session holds the graph it held, or none, as before
C24_MismatchedUploadRefused ==
  (/\ Handled
   /\ lastEvent.header.command = CmdUploadGraph
   /\ \/ bitsLengthMismatch(lastEvent.payload)
      \/ weightCountMismatch(lastEvent.payload)
      \/ bytesRemain(lastEvent.payload))
  => /\ ~decodeGraphPayload(lastEvent.payload).ok
     /\ decodeGraphPayload(lastEvent.payload).error # <<>>
     /\ responseCommand(lastEvent.response) = CmdError
     /\ responseStatus(lastEvent.response) = StInvalidRequest
     /\ SubSeq(lastEvent.response, kHeaderSize + 1, Len(lastEvent.response))
          = serializeString(decodeGraphPayload(lastEvent.payload).error)
     /\ sessionLive(lastEvent.peer)
          => sessionOf(lastEvent.peer) = lastEvent.before

\* a session with a graph was sent a payload that deserializeUploadGraph
\* takes, with a bit block one byte longer than its counts need, and holds
\* its graph
C24_Witness ==
  /\ Handled
  /\ lastEvent.header.command = CmdUploadGraph
  /\ bitsLengthMismatch(lastEvent.payload)
  /\ deserializeUploadGraph(lastEvent.payload).ok
  /\ declaredCounts(lastEvent.payload).bitsSize = 6
  /\ lastEvent.before.hasGraph
  /\ sessionLive(lastEvent.peer)
  /\ sessionOf(lastEvent.peer) = lastEvent.before

\* the payload bytes of a response
responsePayload(response) ==
  SubSeq(response, kHeaderSize + 1, Len(response))

\* what the compute engine reports for the query in the payload on the
\* graph of the context
computed(context, payload) ==
  bellmanFord(context.graph, deserializePathQuery(payload).payload.source,
              deserializePathQuery(payload).payload.target)

\* C25: a PathQuery of four bytes handled for a session that has a graph
\* is answered PathResult/Ok with the distance and the path bellmanFord
\* gives when it reports the target reachable, and Error/NotReady with a
\* text when it does not; a PathQuery whose payload is not four bytes long
\* is answered Error/InvalidRequest
C25_PathQueryAnswer ==
  (Handled /\ lastEvent.header.command = CmdPathQuery)
  => IF Len(lastEvent.payload) # 4
     THEN /\ responseCommand(lastEvent.response) = CmdError
          /\ responseStatus(lastEvent.response) = StInvalidRequest
     ELSE lastEvent.before.hasGraph
          => IF computed(lastEvent.before, lastEvent.payload).reachable
             THEN /\ responseCommand(lastEvent.response) = CmdPathResult
                  /\ responseStatus(lastEvent.response) = StOk
                  /\ deserializePathResult(
                       responsePayload(lastEvent.response)).ok
                  /\ deserializePathResult(
                       responsePayload(lastEvent.response)).payload
                     = [distance |->
                          computed(lastEvent.before,
                                   lastEvent.payload).distance,
                        path |->
                          computed(lastEvent.before, lastEvent.payload).path]
             ELSE /\ responseCommand(lastEvent.response) = CmdError
                  /\ responseStatus(lastEvent.response) = StNotReady
                  /\ HasReason(lastEvent.response)

\* a session holding the graph of two components was asked for a path
\* between them and answered Error/NotReady
C25_Witness ==
  /\ Handled
  /\ lastEvent.header.command = CmdPathQuery
  /\ lastEvent.before.hasGraph
  /\ lastEvent.before.graph = Islands
  /\ deserializePathQuery(lastEvent.payload).ok
  /\ deserializePathQuery(lastEvent.payload).payload.target
       < Islands.vertexCount
  /\ ~computed(lastEvent.before, lastEvent.payload).reachable
  /\ responseStatus(lastEvent.response) = StNotReady

\* the commands the handlers have a case for
RequestCommands == {CmdHelp, CmdUploadGraph, CmdPathQuery, CmdExit}

\* C26: a request whose command is none of Help, UploadGraph, PathQuery and
\* Exit is answered Error/InvalidRequest with the text of an unknown
\* command, and a Help request is answered Help/Ok with the help text
\* whether the session has a graph or not
C26_UnknownCommandAndHelp ==
  /\ (Handled /\ lastEvent.header.command \notin RequestCommands)
     => /\ responseCommand(lastEvent.response) = CmdError
        /\ responseStatus(lastEvent.response) = StInvalidRequest
        /\ responsePayload(lastEvent.response)
             = serializeString(kMsgUnknownCommand)
  /\ (Handled /\ lastEvent.header.command = CmdHelp)
     => /\ responseCommand(lastEvent.response) = CmdHelp
        /\ responseStatus(lastEvent.response) = StOk
        /\ responsePayload(lastEvent.response) = serializeString(kHelpText)

\* a session that holds a graph sent a request with the command Ack and was
\* answered Error/InvalidRequest
C26_Witness ==
  /\ Handled
  /\ lastEvent.header.command = CmdAck
  /\ lastEvent.before.hasGraph
  /\ responseCommand(lastEvent.response) = CmdError
  /\ responseStatus(lastEvent.response) = StInvalidRequest

\* ------------------------------------------------------------------------
\* Properties of the graph engine (checked under SpecGraph)
\* ------------------------------------------------------------------------
\* the incidence matrix has vertexCount rows of edgeCount cells, every cell
\* is 0 or 1 and every column has one or two cells set
matrixWellFormed(graph) ==
  /\ Len(graph.incidence) = graph.vertexCount
  /\ \A v \in 1..graph.vertexCount : Len(graph.incidence[v]) = graph.edgeCount
  /\ \A v \in 1..graph.vertexCount : \A e \in 1..graph.edgeCount :
       graph.incidence[v][e] \in {0, 1}
  /\ \A e \in 1..graph.edgeCount :
       Cardinality({v \in 1..graph.vertexCount : graph.incidence[v][e] = 1})
         \in {1, 2}

\* at least six vertices and six edges, edgeCount weights, each at most
\* limit, and a well-formed matrix
graphWellFormed(graph, limit) ==
  /\ graph.vertexCount >= 6
  /\ graph.edgeCount >= 6
  /\ Len(graph.weights) = graph.edgeCount
  /\ \A e \in 1..graph.edgeCount : graph.weights[e] <= limit
  /\ matrixWellFormed(graph)

\* C27: validateGraph accepts a graph exactly when it has at least 6
\* vertices, at least 6 edges, edgeCount weights each strictly below
\* kInfinity, and a vertexCount x edgeCount matrix of 0/1 cells whose every
\* column has 1 or 2 cells set; when it does not accept it gives a reason
C27_ValidateGraphExact ==
  (fnPc = "validated" /\ fnArg.kind = "graph")
  => /\ fnResult.ok <=> graphWellFormed(fnArg.value.graph, kInfinity - 1)
     /\ ~fnResult.ok => fnResult.message # <<>>

\* the edges (one-based columns) that join the vertices a and b
\* (zero-based); with a = b, the self-loops on a
edgesJoining(graph, a, b) ==
  {e \in 1..graph.edgeCount :
     {v \in 0..(graph.vertexCount - 1) : graph.incidence[v + 1][e] = 1}
       = {a, b}}

\* the vertices that can be reached from those of the set along edges
RECURSIVE reachableFrom(_, _)
reachableFrom(graph, vertices) ==
  LET grown(more) ==
        IF more = vertices THEN vertices ELSE reachableFrom(graph, more)
  IN grown(vertices
           \cup {v \in 0..(graph.vertexCount - 1) :
                   \E u \in vertices : edgesJoining(graph, u, v) # {}})

\* the least element of a non-empty set of numbers
least(numbers) == CHOOSE x \in numbers : \A y \in numbers : x <= y

\* the least total weight of a walk to the vertex v that is either one of
\* the walks prev knows (prev[u + 1] is the least weight known for the
\* vertex u, -1 when none is known) or one of them and one more edge
leastOver(graph, prev, v) ==
  LET totals ==
        {prev[v + 1]}
        \cup {prev[ue[1] + 1] + graph.weights[ue[2]] :
                ue \in {x \in (0..(graph.vertexCount - 1))
                               \X (1..graph.edgeCount) :
                          /\ prev[x[1] + 1] # -1
                          /\ x[2] \in edgesJoining(graph, x[1], v)}}
  IN IF totals \ {-1} = {} THEN -1 ELSE least(totals \ {-1})

\* leastOver for the vertex v and those after it, behind acc
RECURSIVE leastOverAll(_, _, _, _)
leastOverAll(graph, prev, v, acc) ==
  IF v >= graph.vertexCount THEN acc
  ELSE leastOverAll(graph, prev, v + 1, Append(acc, leastOver(graph, prev, v)))

\* the least total weight of a walk of at most k edges from source to each
\* vertex (at index vertex + 1), -1 where there is none
RECURSIVE leastWithin(_, _, _)
leastWithin(graph, source, k) ==
  IF k = 0
  THEN [i \in 1..graph.vertexCount |-> IF i = source + 1 THEN 0 ELSE -1]
  ELSE leastOverAll(graph, leastWithin(graph, source, k - 1), 0, <<>>)

\* the sum, over the steps of the path from its i-th vertex on, of the
\* least weight of an edge that joins the two vertices of the step
RECURSIVE stepsWeight(_, _, _)
stepsWeight(graph, path, i) ==
  IF i >= Len(path) THEN 0
  ELSE least({graph.weights[e] :
                e \in edgesJoining(graph, path[i], path[i + 1])})
       + stepsWeight(graph, path, i + 1)

\* the result is a shortest path from source to target in the graph
isShortestPath(graph, source, target, result) ==
  /\ result.distance = leastWithin(graph, source,
                                   graph.vertexCount - 1)[target + 1]
  /\ result.path # <<>>
  /\ result.path[1] = source
  /\ result.path[Len(result.path)] = target
  /\ \A i \in 1..(Len(result.path) - 1) :
       edgesJoining(graph, result.path[i], result.path[i + 1]) # {}
  /\ stepsWeight(graph, result.path, 1) = result.distance

\* C28: for a graph validateGraph accepts and a source and a target below
\* vertexCount, bellmanFord reports reachable exactly when the target can
\* be reached from the source along edges, and then its distance is the
\* least total weight of a path and its path goes from source to target
\* along edges whose weights sum to the distance; for a vertex out of
\* range, a graph with no vertices or no path it reports not reachable
\* with a reason
C28_BellmanFordCorrect ==
  (fnPc = "done" /\ fnArg.kind = "graph")
  => /\ (/\ fnResult.ok
         /\ fnArg.value.source < fnArg.value.graph.vertexCount
         /\ fnArg.value.target < fnArg.value.graph.vertexCount)
        => /\ fnResult.computation.reachable
              <=> fnArg.value.target
                    \in reachableFrom(fnArg.value.graph,
                                      {fnArg.value.source})
           /\ fnResult.computation.reachable
              => isShortestPath(fnArg.value.graph, fnArg.value.source,
                                fnArg.value.target, fnResult.computation)
     /\ (\/ fnArg.value.graph.vertexCount = 0
         \/ fnArg.value.source >= fnArg.value.graph.vertexCount
         \/ fnArg.value.target >= fnArg.value.graph.vertexCount)
        => ~fnResult.computation.reachable
     /\ ~fnResult.computation.reachable
        => fnResult.computation.error # <<>>

\* ------------------------------------------------------------------------
\* The end-to-end example (checked under Spec)
\* ------------------------------------------------------------------------
\* C29: a session that accepted the 6-vertex cycle with weights 1 is
\* answered, for the query from 0 to 3, with PathResult/Ok, distance 3 and
\* the path 0, 1, 2, 3: one of the two paths of weight 3, and the same one
\* in every answer, on either transport and for any peer
C29_CycleExample ==
  (/\ Handled
   /\ lastEvent.header.command = CmdPathQuery
   /\ lastEvent.payload = serializePathQuery([source |-> 0, target |-> 3])
   /\ lastEvent.before.hasGraph
   /\ lastEvent.before.graph = Cycle6)
  => /\ responseCommand(lastEvent.response) = CmdPathResult
     /\ responseStatus(lastEvent.response) = StOk
     /\ deserializePathResult(responsePayload(lastEvent.response)).ok
     /\ deserializePathResult(responsePayload(lastEvent.response)).payload
          = [distance |-> 3, path |-> <<0, 1, 2, 3>>]

\* a UDP session uploaded the cycle and then asked for the path from 0 to 3
C29_Witness ==
  /\ lastEvent.kind = "udp"
  /\ lastEvent.header.command = CmdPathQuery
  /\ lastEvent.payload = serializePathQuery([source |-> 0, target |-> 3])
  /\ lastEvent.before.hasGraph
  /\ lastEvent.before.graph = Cycle6
  /\ accepted[lastEvent.peer] = Cycle6
  /\ responseCommand(lastEvent.response) = CmdPathResult

\* ------------------------------------------------------------------------
\* Properties of the request counter (checked under SpecIds)
\* ------------------------------------------------------------------------
\* the request id in the header at the front of a packet
packetRequestId(packet) == packet[3] * 256 + packet[4]

\* C30: the k-th request of a session carries the id k as far as k is at
\* most 65535, so that the first carries 1 and no two of the first 65535
\* share an id; every request after the first carries the id of the one
\* before it plus 1 modulo 65536; and every transmission of a request
\* carries the id of that request
C30_RequestIds ==
  /\ [](/\ (issued >= 1 /\ issued <= 65535)
            => cliReq.header.requestId = issued
         /\ \A i \in 1..Len(sentLog) :
              packetRequestId(sentLog[i]) = cliReq.header.requestId)
  /\ [][(issued' = issued + 1 /\ issued >= 1)
          => cliReq'.header.requestId
               = (cliReq.header.requestId + 1) % 65536]_vars

\* the second request of a session was transmitted three times
C30_Witness ==
  /\ issued = 2
  /\ cliReq.header.requestId = 2
  /\ Len(sentLog) = 3
  /\ packetRequestId(sentLog[3]) = 2

\* ------------------------------------------------------------------------
\* Properties of the UDP client and its server (checked under SpecUdp)
\* ------------------------------------------------------------------------
\* C31: when sendUdpWithAck returns without a response for an UploadGraph
\* or a PathQuery request the client has left its loop; a client that has
\* left its loop transmits nothing more; and a call that returns without
\* a response leaves the client's graph and graphLoaded as they were
C31_FailureStopsClient ==
  /\ []((/\ Returned
         /\ ~cliResult.some
         /\ cliReq.header.command \in {CmdUploadGraph, CmdPathQuery})
        => cliPc = "stopped")
  /\ [][cliPc = "stopped"
          => /\ UNCHANGED cliVars
             /\ \A d \in BagToSet(c2s') : CopiesIn(d, c2s') <= CopiesIn(d, c2s)]_vars
  /\ [][(InCall /\ ~InCall' /\ ~cliResult'.some)
          => cliState' = cliState]_vars

\* the client gave up on its upload of Cycle6 after kAckRetries
\* transmissions, has stopped and holds no graph
C31_Witness ==
  /\ cliPc = "stopped"
  /\ cliReq.header.command = CmdUploadGraph
  /\ cliReq.graph = Cycle6
  /\ cliResult = NoResult
  /\ Len(sentLog) = kAckRetries
  /\ cliState = [graph |-> EmptyGraph, graphLoaded |-> FALSE]

\* the first call of sendUdpWithAck returned an answer in its first pass,
\* on a socket that received no copy and no datagram of another host, and
\* has read everything the server sent: the Ack in the first wait and one
\* more datagram in the second
HappyPath ==
  /\ Returned
  /\ issued = 1
  /\ attempt = 1
  /\ waitOutcome = "answer"
  /\ dups = 0
  /\ injected = 0
  /\ s2c = EmptyBag

\* C32: a first request whose Ack and answer were read in that order in
\* the first pass, on a socket with no other datagram, was transmitted
\* once, and what sendUdpWithAck returned is the response the server sent
\* for it, with the request's id
C32_HappyPathOneTransmission ==
  HappyPath =>
    /\ sentLog = <<cliReq.packet>>
    /\ cliResult.some
    /\ cliResult.header.requestId = cliReq.header.requestId
    /\ cliResult.header.command # CmdAck
    /\ lastEvent.kind = "udp"
    /\ lastEvent.header = cliReq.header
    /\ headerOf(lastEvent.response).header = cliResult.header
    /\ SubSeq(lastEvent.response, kHeaderSize + 1, Len(lastEvent.response))
         = cliResult.payload
    /\ Len(udpOut) = 2

\* the upload of Cycle6 went through in one pass and the client holds the
\* graph
C32_Witness ==
  /\ HappyPath
  /\ cliReq.header.command = CmdUploadGraph
  /\ cliResult.header.status = StOk
  /\ cliResult.payload # <<>>
  /\ cliState.graphLoaded

\* C33: with no datagram lost, copied or sent by another host, and every
\* sendto successful, sendUdpWithAck does not return without a response
\* from a pass in which it read a datagram; in particular the datagrams the
\* retransmissions of an earlier request left on the socket do not use up
\* the passes of a later request
C33_NoFailureWithoutLoss ==
  (/\ Returned
   /\ issued > 1
   /\ dups = 0
   /\ injected = 0
   /\ ~sendFailed
   /\ waitOutcome # "timeout")
  => cliResult.some

\* ------------------------------------------------------------------------
\* The graph the UDP client holds and the graph its session holds
\* ------------------------------------------------------------------------
\* the graphs the user of the client enters: two that the server accepts
\* and one that passes validateCounts and that the server refuses
SessionGraphs == {Cycle6, Islands, ThreeEnds}

\* the UDP client uploading graphs to the UDP server over a network that
\* loses nothing, copies nothing and hands over the datagrams in flight in
\* any order
NextSession ==
  \/ \E graphDef \in SessionGraphs : ClientUpload(graphDef)
  \/ ClientStep
  \/ \E d \in BagToSet(c2s) : UdpServerRecv(d)
  \/ UdpServerDispatch

SpecSession == InitUdp /\ [][NextSession]_vars

\* the session the UDP server keeps for the client
clientSession == udpContext(clients, 1)

\* C34: when the client is at its prompt with graphLoaded set and the
\* server has handled every datagram the client sent, the client's
\* session at the server has a graph, and it is the graph the client holds
C34_ClientServerAgree ==
  (/\ cliPc = "prompt"
   /\ cliState.graphLoaded
   /\ c2s = EmptyBag
   /\ srvPc = "recv")
  => /\ clientSession.hasGraph
     /\ clientSession.graph = cliState.graph

\* the client is at its prompt and the last thing it did was to accept the
\* server's UploadGraph/Ok response to its upload of the graph it holds
uploadAccepted ==
  /\ cliPc = "prompt"
  /\ cliReq.header.command = CmdUploadGraph
  /\ cliResult.some
  /\ cliResult.header.command = CmdUploadGraph
  /\ cliResult.header.status = StOk
  /\ cliResult.header.requestId = cliReq.header.requestId
  /\ cliState = [graph |-> cliReq.graph, graphLoaded |-> TRUE]

\* C35: from the point where the client has accepted the UploadGraph/Ok
\* response for a graph and the session holds that graph, no step taken
\* before the client's next command changes the graph of the session
C35_SessionKeepsAcceptedGraph ==
  [][(/\ uploadAccepted
      /\ clientSession = [graph |-> cliReq.graph, hasGraph |-> TRUE]
      /\ uploadAccepted')
     => clientSession' = clientSession]_vars

\* ------------------------------------------------------------------------
\* The graph engine on a graph of more than 32768 vertices
\* ------------------------------------------------------------------------
\* a path 0 - 1 - 32768 - 2 - 3 - 4 - 5 in a graph of 32770 vertices whose
\* other vertices have no edge
WidePath ==
  GraphOf(32770,
          <<<<0, 1>>, <<1, 32768>>, <<32768, 2>>, <<2, 3>>, <<3, 4>>,
            <<4, 5>>>>,
          <<1, 1, 1, 1, 1, 1>>)

\* the pairs asked for on WidePath: across vertex 32768, from it and to it
WideQueries == {<<0, 3>>, <<32768, 2>>, <<0, 32768>>}

InitWide ==
  /\ InitServer
  /\ transport = "tcp"
  /\ InitClient
  /\ InitConn
  /\ InitFrame(<<>>)
  /\ InitCodec(NoHeader)
  /\ \/ \E q \in WideQueries :
          InitCall([kind |-> "graph",
                    value |-> [graph |-> WidePath, source |-> q[1],
                               target |-> q[2]]])
     \/ \E s \in VertexValues : \E t \in VertexValues :
          InitCall([kind |-> "graph",
                    value |-> [graph |-> Cycle6, source |-> s,
                               target |-> t]])

NextWide ==
  \/ GraphValidate
  \/ GraphBellmanFord

SpecWide == InitWide /\ [][NextWide]_vars

\* dist and parent after the passes of bellmanFord over a graph whose
\* edges collectEdges accepts
relaxedFrom(graph, source) ==
  relaxPasses(collectEdges(graph).edges, 0, graph.vertexCount, source,
              initialDistances(graph.vertexCount, source))

\* every stored predecessor is the marker -1 or an index into parent
parentsInside(parent, n) ==
  \A i \in 1..n : parent[i] = -1 \/ parent[i] \in 0..(n - 1)

\* the path goes from source to target over vertices of the graph
pathWithin(path, source, target, n) ==
  /\ path # <<>>
  /\ path[1] = source
  /\ path[Len(path)] = target
  /\ \A k \in 1..Len(path) : path[k] < n

\* C36: for a graph validateGraph accepts, a source in range and a target
\* that the passes gave a distance, the predecessors bellmanFord stored
\* are -1 or indices into parent, the reconstruction reads parent only
\* inside the array and comes to its end, and the path returned goes from
\* source to target over vertices below vertexCount
C36_ParentsIndexInside ==
  (/\ fnPc = "done"
   /\ fnArg.kind = "graph"
   /\ fnResult.ok
   /\ collectEdges(fnArg.value.graph).message = <<>>
   /\ fnArg.value.source < fnArg.value.graph.vertexCount
   /\ fnArg.value.target < fnArg.value.graph.vertexCount
   /\ relaxedFrom(fnArg.value.graph, fnArg.value.source)
        .dist[fnArg.value.target + 1] # kInfinity)
  => /\ parentsInside(relaxedFrom(fnArg.value.graph, fnArg.value.source)
                        .parent, fnArg.value.graph.vertexCount)
     /\ ~fnResult.computation.outside
     /\ fnResult.computation.returned
     /\ fnResult.computation.reachable
     /\ pathWithin(fnResult.computation.path, fnArg.value.source,
                   fnArg.value.target, fnArg.value.graph.vertexCount)

\* ------------------------------------------------------------------------
\* The sums of the relaxation (checked under SpecGraph)
\* ------------------------------------------------------------------------
\* the greatest weight of the graph
greatestWeight(graph) ==
  CHOOSE w \in {graph.weights[e] : e \in 1..Len(graph.weights)} :
    \A e \in 1..Len(graph.weights) : graph.weights[e] <= w

\* no sum exceeds the greatest distance below the sentinel plus the
\* greatest weight, and every distance is the sentinel or lies below it
sumsBounded(graph, final) ==
  /\ greatestWeight(graph) <= kInfinity - 1
  /\ final.largest <= (kInfinity - 1) + greatestWeight(graph)
  /\ \A i \in 1..graph.vertexCount : final.dist[i] <= kInfinity

\* C37: for a graph validateGraph and collectEdges accept, every sum
\* dist + w the relaxation evaluates is at most 2 * kInfinity - 2, which is
\* below 2^31 and so below 2^32, the sum being evaluated only for a
\* distance below the sentinel and a weight below it; and no distance ever
\* exceeds the sentinel
C37_SumsDoNotWrap ==
  (/\ fnPc = "done"
   /\ fnArg.kind = "graph"
   /\ fnResult.ok
   /\ collectEdges(fnArg.value.graph).message = <<>>
   /\ fnArg.value.source < fnArg.value.graph.vertexCount
   /\ fnArg.value.target < fnArg.value.graph.vertexCount)
  => sumsBounded(fnArg.value.graph,
                 relaxedFrom(fnArg.value.graph, fnArg.value.source))

\* on the cycle with weights of 400000000 the relaxation from vertex 0 has
\* evaluated the sum 800000000 + 400000000, which is above the sentinel,
\* and has left vertex 3 without a distance
C37_Witness ==
  /\ fnPc = "done"
  /\ fnArg.kind = "graph"
  /\ fnArg.value.graph = HeavyPath
  /\ fnArg.value.source = 0
  /\ fnArg.value.target = 3
  /\ relaxedFrom(HeavyPath, 0).largest = 1200000000
  /\ relaxedFrom(HeavyPath, 0).dist[4] = kInfinity

\* ------------------------------------------------------------------------
\* The size of an upload
\* ------------------------------------------------------------------------
\* the number of bytes packIncidenceMatrix returns for a matrix of
\* vertexCount rows and edgeCount columns
packedSize(vertexCount, edgeCount) ==
  IF vertexCount = 0 \/ edgeCount = 0 THEN 0
  ELSE (vertexCount * edgeCount + 7) \div 8

\* the number of bytes serializeUploadGraph lays out for a bit block of
\* bitsSize bytes and weightCount weights
uploadSize(bitsSize, weightCount) ==
  2 + 2 + 4 + bitsSize + 4 + 4 * weightCount

\* the sizes agree with the bytes the codec produces
SizesAgree ==
  \A g \in TestGraphs :
    /\ Len(packIncidenceMatrix(g.incidence))
         = packedSize(g.vertexCount, g.edgeCount)
    /\ Len(buildUploadPayload(g))
         = uploadSize(packedSize(g.vertexCount, g.edgeCount),
                      Len(g.weights))

\* the counts of the graphs the user enters, each with as many weights as
\* edges
VertexCounts == {5, 6, 7, 100, 1000, 2900, 65535}
EdgeCounts == {5, 6, 7, 100, 1000, 2900, 32767}

\* the command "input" of the TCP client up to its sendTcpMessage, for a
\* graph with the given counts: validateCounts, and the header that goes
\* in front of the payload buildUploadPayload returns
SizesUpload ==
  /\ fnPc = "start"
  /\ fnArg.kind = "counts"
  /\ IF validateCounts(fnArg.value)
     THEN /\ fnBytes' = serializeHeader(
                          [command |-> CmdUploadGraph, status |-> StOk,
                           requestId |-> 0,
                           payloadSize |->
                             uploadSize(packedSize(fnArg.value.vertexCount,
                                                   fnArg.value.edgeCount),
                                        fnArg.value.edgeCount),
                           reserved |-> 0])
          /\ fnPc' = "sent"
     ELSE /\ fnBytes' = fnBytes
          /\ fnPc' = "refused"
  /\ UNCHANGED <<fnArg, fnShape, fnResult>>
  /\ UNCHANGED <<srvVars, netVars, cliVars, connVars, frameVars, codecVars>>

\* readTcpMessage of the worker on the header: a header that does not
\* decode ends handleTcpClient, which closes the connection
SizesRead ==
  /\ fnPc = "sent"
  /\ fnArg.kind = "counts"
  /\ fnResult' = [ok |-> deserializeHeader(fnBytes).ok,
                  header |-> deserializeHeader(fnBytes).header,
                  connection |-> IF deserializeHeader(fnBytes).ok
                                 THEN "open" ELSE "closed"]
  /\ fnPc' = "read"
  /\ UNCHANGED <<fnArg, fnBytes, fnShape>>
  /\ UNCHANGED <<srvVars, netVars, cliVars, connVars, frameVars, codecVars>>

InitSizes ==
  /\ InitServer
  /\ transport = "tcp"
  /\ InitClient
  /\ InitConn
  /\ InitFrame(<<>>)
  /\ InitCodec(NoHeader)
  /\ \E v \in VertexCounts : \E e \in EdgeCounts :
       InitCall([kind |-> "counts",
                 value |-> [vertexCount |-> v, edgeCount |-> e]])

NextSizes ==
  \/ SizesUpload
  \/ SizesRead

SpecSizes == InitSizes /\ [][NextSizes]_vars

\* C38: the payload of a graph that passed validateCounts has at most
\* kMaxPayloadSize bytes, the worker decodes the header of the upload and
\* the connection stays open
C38_UploadFitsPayloadLimit ==
  (fnPc = "read" /\ fnArg.kind = "counts")
  => /\ uploadSize(packedSize(fnArg.value.vertexCount,
                              fnArg.value.edgeCount),
                   fnArg.value.edgeCount) <= kMaxPayloadSize
     /\ fnResult.ok
     /\ fnResult.connection = "open"

\* ------------------------------------------------------------------------
\* The two dispatchers side by side (checked under Spec)
\* ------------------------------------------------------------------------
\* the session after the TCP worker handled a request: the context, or
\* none when the worker has returned
tcpSessionAfter(r) ==
  IF r.exit THEN [live |-> FALSE, context |-> NewContext]
  ELSE [live |-> TRUE, context |-> r.context]

\* the session after the UDP server handled a request of the sender with
\* the given key: the entry of the table, or none when it was erased
udpSessionAfter(r, key) ==
  IF key \in DOMAIN r.clients
  THEN [live |-> TRUE, context |-> r.clients[key]]
  ELSE [live |-> FALSE, context |-> NewContext]

\* the two dispatchers give the same response and the same session for
\* the request, from the session state context
sameDispatch(t, u, key) ==
  /\ t.header = u.header
  /\ t.payload = u.payload
  /\ tcpSessionAfter(t) = udpSessionAfter(u, key)

\* C39: for every request the server handled, on either transport, the
\* switch of handleTcpClient and the switch of runUdpServer, applied to
\* the session state the request found, give the same response header,
\* the same response payload and the same session
C39_SameDispatcher ==
  Handled =>
    sameDispatch(
      handleTcpClient(lastEvent.before, lastEvent.header, lastEvent.payload),
      runUdpServer([k \in {addrToKey(PeerAddr(lastEvent.peer))}
                      |-> lastEvent.before],
                   PeerAddr(lastEvent.peer), lastEvent.header,
                   lastEvent.payload),
      addrToKey(PeerAddr(lastEvent.peer)))

\* ------------------------------------------------------------------------
\* The graphs a session stores and the queries on them
\* ------------------------------------------------------------------------
\* the graphs uploaded: the cycle, a graph of two components, and the
\* cycle with one weight equal to the infinity sentinel
StoredGraphs == {Cycle6, Islands, SentinelEdge}

\* uploads of these graphs, and queries for a pair in range and for a
\* target out of range
StoredRequests ==
  {[command |-> CmdUploadGraph, payload |-> buildUploadPayload(g)] :
     g \in StoredGraphs}
  \cup {[command |-> CmdPathQuery,
         payload |-> serializePathQuery([source |-> st[1],
                                         target |-> st[2]])] :
          st \in {<<0, 3>>, <<0, 9>>}}

\* the server on either transport, with peers that send these requests
NextStored ==
  \/ \E c \in Peers : TcpAccept(c)
  \/ \E c \in Peers : \E req \in StoredRequests :
       \E sendResult \in SendResults :
         TcpWorkerStep(c, serializeHeader(requestHeaderOf(req)),
                       req.payload, sendResult)
  \/ \E c \in Peers : TcpReadFail(c)
  \/ \E d \in BagToSet(c2s) : UdpServerRecv(d)
  \/ UdpServerDispatch
  \/ \E i \in Peers : \E req \in StoredRequests :
       UdpPeerSend(i, serializeHeader(requestHeaderOf(req)) \o req.payload)
  \/ \E d \in BagToSet(s2c) : NetLoseReply(d)

SpecStored == Init /\ [][NextStored]_vars

\* the query in the payload names two vertices of the graph
queryInRange(graph, payload) ==
  /\ deserializePathQuery(payload).ok
  /\ deserializePathQuery(payload).payload.source < graph.vertexCount
  /\ deserializePathQuery(payload).payload.target < graph.vertexCount

\* C40: a PathQuery for two vertices in range, handled for a session that
\* holds a graph, is answered PathResult/Ok, or Error with the text that no
\* path exists between the vertices
C40_StoredGraphUsable ==
  (/\ Handled
   /\ lastEvent.header.command = CmdPathQuery
   /\ lastEvent.before.hasGraph
   /\ queryInRange(lastEvent.before.graph, lastEvent.payload))
  => \/ /\ responseCommand(lastEvent.response) = CmdPathResult
        /\ responseStatus(lastEvent.response) = StOk
     \/ /\ responseCommand(lastEvent.response) = CmdError
        /\ responsePayload(lastEvent.response) = serializeString(kMsgNoPath)
====
